---- MODULE Spec2Model ----
(***************************************************************************)
(* Blue POT prototype: the BM64 link protocol engine and the radio         *)
(* connection/call state machine (blue_pot_proto main sketch), and the     *)
(* AG1171 line interface they command (pots.ino).                          *)
(*                                                                         *)
(* Every C global is a variable of the same name.  A C function f that     *)
(* changes globals is an operator f(s, ...) from a record s of all the     *)
(* globals to the record after the call, so that a handler is the          *)
(* composition of the calls it makes, in the order of the code.            *)
(* The field ev of the record is the observation trace of the handler that *)
(* ran last: the packets it wrote to Serial1, the "BT State" log lines,    *)
(* the bytes and events it consumed, in the order they happened.           *)
(***************************************************************************)
EXTENDS Integers, Sequences, FiniteSets, TLC

(***************************************************************************)
(* Program constants                                                       *)
(***************************************************************************)
BT_EVAL_MSEC == 20
NUM_VALID_DIGITS == 10
BT_RECONNECT_MSEC == 60000
BT_RX_PKT_BUF_LEN == 32
BT_TX_PKT_BUF_LEN == 32
POTS_EVAL_MSEC == 10
POTS_ON_HOOK_DETECT_MSEC == 500
POTS_RING_ON_MSEC == 1000
POTS_RING_OFF_MSEC == 3000
POTS_RING_FREQ_HZ == 25
POTS_DTMF_DRIVEN_MSEC == 30
POTS_DTMF_SILENT_MSEC == 30
\* detector thresholds, in tenths of the detectors' full scale
POTS_DTMF_ROW_THRESHOLD == 2
POTS_DTMF_COL_THRESHOLD == 2
POTS_DTMF_ASTERISK_VAL == 10
POTS_DTMF_POUND_VAL == 11
POTS_ROT_BREAK_MSEC == 100
POTS_ROT_MAKE_MSEC == 100
POTS_NS_TONE_ON_MSEC == 300
POTS_NS_TONE_OFF_MSEC == 200
POTS_OH_TONE_ON_MSEC == 100
POTS_OH_TONE_OFF_MSEC == 100
POTS_RCV_OFF_HOOK_MSEC == 60000

(***************************************************************************)
(* Bounds of the model                                                     *)
(***************************************************************************)
\* longest payload (bytes after the opcode) of a frame put on the wire
MaxPayload == 2
\* frames put on the wire in one behaviour of the byte-level link model
MaxFrames == 1
\* radio ticks spent disconnected with the link down, per outage, in the
\* call-handling models (the reconnect model runs whole reconnect periods)
MaxDownTicks == 1
\* reconnect periods of one outage in the reconnect model
MaxReconnects == 2
\* dial attempts (entries into BT_DIALING) in one behaviour of the
\* call-handling model
MaxAttempts == 1
\* dial attempts in one behaviour of the dialling model
MaxDialAttempts == 2
\* line ticks of ringing the cadence monitor counts: two ring cycles and
\* the start of the third burst
MaxRingAge == 810
\* ring model: changes of the raw hook sample, raw off-hook samples in a
\* row, potsSetRing calls
\* line ticks since a hook change that the monitor counts
MaxHookAge == 51
\* debounce model: line ticks in which something changes
MaxDebounceTicks == 10
\* hook model: digits dialled
MaxHookDigits == 2
\* raw hook samples in a row that the environment counts
MaxHookRun == 52
MaxRingFlips == 2
MaxRingLift == 2
MaxRingCmds == 1
MaxSilentAge == 4
MaxDtmfTicks == 12
MaxToneAge == 6001
MaxToneDigits == 2
MaxIdleTicks == 10
MaxCallFrames == 2
MaxLatchDownTicks == 30
MaxPairCmds == 2
MaxClockPasses == 4
MaxRestTicks == 4
MaxRestRadioTicks == 1
MaxRestFrames == 1
\* keypad model: line ticks in which the tone detectors are read with the
\* handset at rest off the hook, digits dialled
MaxKeypadTicks == 8
MaxKeypadDigits == 1
\* warning model: potsSetInCall calls
MaxWarnCmds == 3
\* overrun model: bytes that follow the length field of one frame
MaxOverrunBytes == 36
\* relift model: changes of the raw hook sample
MaxReliftFlips == 3

VARIABLES
    \* ---- main sketch: BM64 module
    bt_state, bt_call_state, bt_in_service,
    bt_reconnect_count, bt_link_device_index,
    bt_rx_pkt_state, bt_rx_pkt_buf, bt_rx_pkt_index, bt_rx_pkt_len,
    bt_rx_pkt_exp_chksum,
    bt_tx_pkt_buf,
    bt_dial_index, bt_dial_array,
    \* ---- pots.ino: line interface
    pots_state, pots_state_count, pots_in_service, pots_in_call,
    pots_cur_off_hook, pots_saw_hook_state_change,
    pots_ring_state, pots_ring_period_count, pots_ring_pulse_count,
    pots_dial_new_digit, pots_dial_cur_digit,
    pots_prev_off_hook,
    pots_dial_state, pots_dial_period_count, pots_dial_pulse_count,
    pots_dial_prev_digit,
    pots_tone_state, pots_tone_period_count,
    pin_FR, pin_RM,
    \* ---- evaluation times: unsigned long, as <<high 16 bits, low 16 bits>>
    bt_prev_evalT, pots_prev_evalT,
    \* ---- main sketch: configuration
    pairID,      \* device ID to pair with
    eeprom,      \* the EEPROM byte at EEP_DEV_ID
    \* ---- observation
    ev,          \* trace of the handler that ran last
    rx_oob,      \* a write outside bt_rx_pkt_buf has happened
    \* ---- environment and history
    wire,        \* bytes on the serial line, not yet read by btEval
    nframes,     \* frames put on the wire so far
    loop,        \* opcode and payload of the frame that was looped back
    number,      \* the number the caller keys in this behaviour
    dialed,      \* digit events consumed since BT_DIALING was entered
    attempts,    \* entries into BT_DIALING so far
    down_ticks,  \* radio ticks in BT_DISCONNECTED with the link down
    down_cap,    \* how long an outage may last in this behaviour
    attempt_cap, \* how many dial attempts this behaviour may hold
    lim,         \* what the line's environment has done so far
    mon          \* what has been observed of the line since an event

progVars == <<bt_state, bt_call_state, bt_in_service,
              bt_reconnect_count, bt_link_device_index,
              bt_rx_pkt_state, bt_rx_pkt_buf, bt_rx_pkt_index, bt_rx_pkt_len,
              bt_rx_pkt_exp_chksum, bt_tx_pkt_buf, bt_dial_index, bt_dial_array,
              pots_state, pots_state_count, pots_in_service, pots_in_call,
              pots_cur_off_hook, pots_saw_hook_state_change,
              pots_ring_state, pots_ring_period_count, pots_ring_pulse_count,
              pots_dial_new_digit, pots_dial_cur_digit,
              pots_prev_off_hook, pots_dial_state, pots_dial_period_count,
              pots_dial_pulse_count, pots_dial_prev_digit,
              pots_tone_state, pots_tone_period_count,
              pin_FR, pin_RM, bt_prev_evalT, pots_prev_evalT,
              pairID, eeprom, ev, rx_oob>>

envVars == <<wire, nframes, loop, number, dialed, attempts, down_ticks,
             down_cap, attempt_cap>>

lineEnv == <<lim, mon>>

vars == <<progVars, envVars, lineEnv>>

(***************************************************************************)
(* The globals as one record, and the step that stores a record back.      *)
(***************************************************************************)
Cur ==
    [bt_state |-> bt_state, bt_call_state |-> bt_call_state,
     bt_in_service |-> bt_in_service,
     bt_reconnect_count |-> bt_reconnect_count,
     bt_link_device_index |-> bt_link_device_index,
     bt_rx_pkt_state |-> bt_rx_pkt_state, bt_rx_pkt_buf |-> bt_rx_pkt_buf,
     bt_rx_pkt_index |-> bt_rx_pkt_index, bt_rx_pkt_len |-> bt_rx_pkt_len,
     bt_rx_pkt_exp_chksum |-> bt_rx_pkt_exp_chksum,
     bt_tx_pkt_buf |-> bt_tx_pkt_buf,
     bt_dial_index |-> bt_dial_index, bt_dial_array |-> bt_dial_array,
     pots_state |-> pots_state, pots_state_count |-> pots_state_count,
     pots_in_service |-> pots_in_service, pots_in_call |-> pots_in_call,
     pots_cur_off_hook |-> pots_cur_off_hook,
     pots_saw_hook_state_change |-> pots_saw_hook_state_change,
     pots_ring_state |-> pots_ring_state,
     pots_ring_period_count |-> pots_ring_period_count,
     pots_ring_pulse_count |-> pots_ring_pulse_count,
     pots_dial_new_digit |-> pots_dial_new_digit,
     pots_dial_cur_digit |-> pots_dial_cur_digit,
     pots_prev_off_hook |-> pots_prev_off_hook,
     pots_dial_state |-> pots_dial_state,
     pots_dial_period_count |-> pots_dial_period_count,
     pots_dial_pulse_count |-> pots_dial_pulse_count,
     pots_dial_prev_digit |-> pots_dial_prev_digit,
     pots_tone_state |-> pots_tone_state,
     pots_tone_period_count |-> pots_tone_period_count,
     pin_FR |-> pin_FR, pin_RM |-> pin_RM,
     bt_prev_evalT |-> bt_prev_evalT, pots_prev_evalT |-> pots_prev_evalT,
     pairID |-> pairID, eeprom |-> eeprom,
     rx_oob |-> rx_oob,
     ev |-> <<>>]

Commit(t) ==
    /\ bt_state' = t.bt_state
    /\ bt_call_state' = t.bt_call_state
    /\ bt_in_service' = t.bt_in_service
    /\ bt_reconnect_count' = t.bt_reconnect_count
    /\ bt_link_device_index' = t.bt_link_device_index
    /\ bt_rx_pkt_state' = t.bt_rx_pkt_state
    /\ bt_rx_pkt_buf' = t.bt_rx_pkt_buf
    /\ bt_rx_pkt_index' = t.bt_rx_pkt_index
    /\ bt_rx_pkt_len' = t.bt_rx_pkt_len
    /\ bt_rx_pkt_exp_chksum' = t.bt_rx_pkt_exp_chksum
    /\ bt_tx_pkt_buf' = t.bt_tx_pkt_buf
    /\ bt_dial_index' = t.bt_dial_index
    /\ bt_dial_array' = t.bt_dial_array
    /\ pots_state' = t.pots_state
    /\ pots_state_count' = t.pots_state_count
    /\ pots_in_service' = t.pots_in_service
    /\ pots_in_call' = t.pots_in_call
    /\ pots_cur_off_hook' = t.pots_cur_off_hook
    /\ pots_saw_hook_state_change' = t.pots_saw_hook_state_change
    /\ pots_ring_state' = t.pots_ring_state
    /\ pots_ring_period_count' = t.pots_ring_period_count
    /\ pots_ring_pulse_count' = t.pots_ring_pulse_count
    /\ pots_dial_new_digit' = t.pots_dial_new_digit
    /\ pots_dial_cur_digit' = t.pots_dial_cur_digit
    /\ pots_prev_off_hook' = t.pots_prev_off_hook
    /\ pots_dial_state' = t.pots_dial_state
    /\ pots_dial_period_count' = t.pots_dial_period_count
    /\ pots_dial_pulse_count' = t.pots_dial_pulse_count
    /\ pots_dial_prev_digit' = t.pots_dial_prev_digit
    /\ pots_tone_state' = t.pots_tone_state
    /\ pots_tone_period_count' = t.pots_tone_period_count
    /\ pin_FR' = t.pin_FR
    /\ pin_RM' = t.pin_RM
    /\ bt_prev_evalT' = t.bt_prev_evalT
    /\ pots_prev_evalT' = t.pots_prev_evalT
    /\ pairID' = t.pairID
    /\ eeprom' = t.eeprom
    /\ ev' = t.ev
    /\ rx_oob' = t.rx_oob

(***************************************************************************)
(* Observation trace                                                       *)
(***************************************************************************)
Ev(k, a, b, v) == [k |-> k, a |-> a, b |-> b, v |-> v]

Emit(s, e) == [s EXCEPT !.ev = Append(@, e)]

\* the events of kind k in a trace, in order
RECURSIVE EvOf(_, _)
EvOf(t, k) ==
    IF t = <<>> THEN <<>>
    ELSE IF Head(t).k = k THEN <<Head(t)>> \o EvOf(Tail(t), k)
    ELSE EvOf(Tail(t), k)

\* position of the first event of kind k in a trace, 0 when there is none
FirstOf(t, k) ==
    IF \E i \in 1..Len(t) : t[i].k = k
    THEN CHOOSE i \in 1..Len(t) : t[i].k = k /\ \A j \in 1..(i-1) : t[j].k # k
    ELSE 0

(***************************************************************************)
(* Bytes                                                                   *)
(***************************************************************************)
Byte == 0..255

\* uint8_t x; x += y
AddU8(x, y) == (x + y) % 256

\* (uint8_t)(~x + 1) for a uint8_t x
TwosComplementU8(x) == ((255 - x) + 1) % 256

\* the running uint8_t sum of a byte sequence, from start value c
RECURSIVE SumU8(_, _)
SumU8(c, q) == IF q = <<>> THEN c ELSE SumU8(AddU8(c, Head(q)), Tail(q))

\* plain integer sum of a byte sequence
RECURSIVE SumInt(_)
SumInt(q) == IF q = <<>> THEN 0 ELSE Head(q) + SumInt(Tail(q))

(***************************************************************************)
(* Link protocol engine: send                                              *)
(***************************************************************************)
\* bt_tx_pkt_buf[0..] = q[1..]
SetTxBuf(s, q) ==
    [s EXCEPT !.bt_tx_pkt_buf =
        [i \in 0..(BT_TX_PKT_BUF_LEN - 1) |->
            IF i < Len(q) THEN q[i + 1] ELSE @[i]]]

\* a checksum that complements the sum without adding one
TxChecksumOnesComplement(l, body) ==
    255 - SumU8(AddU8((l \div 256) % 256, l % 256), body)

\* the checksum byte _btSendTxPacket writes: cs starts as l >> 8, adds l & 0xFF
\* and every buffer byte in uint8_t arithmetic, and ~cs + 1 is written
TxChecksum(l, body) ==
    TwosComplementU8(SumU8(AddU8((l \div 256) % 256, l % 256), body))

\* the bytes _btSendTxPacket(l) writes to Serial1
TxFrame(l, buf) ==
    LET body == [i \in 1..l |-> buf[i - 1]]
    IN  <<0, 170, (l \div 256) % 256, l % 256>> \o body \o <<TxChecksum(l, body)>>

_btSendTxPacket(s, l) ==
    Emit(s, Ev("tx", "", "", TxFrame(l, s.bt_tx_pkt_buf)))

_btSendEventAck(s, id) == _btSendTxPacket(SetTxBuf(s, <<20, id>>), 2)

_btSendLinkToSelectedDeviceIndex(s) ==
    _btSendTxPacket(SetTxBuf(s, <<23, 4, s.bt_link_device_index % 256, 3>>), 4)

_btSendAcceptCall(s) == _btSendTxPacket(SetTxBuf(s, <<2, 0, 4>>), 3)

_btSendDropCall(s) == _btSendTxPacket(SetTxBuf(s, <<2, 0, 6>>), 3)

_btSendVoiceDial(s) == _btSendTxPacket(SetTxBuf(s, <<2, 0, 10>>), 3)

\* g & 0x0F
_btSendSetSpeakerGain(s, g) == _btSendTxPacket(SetTxBuf(s, <<27, 0, g % 16>>), 3)

\* a mapping that knows the decimal digits only
DialCharDigitsOnly(d) == (48 + d) % 256

\* the character _btSendDialNumber stores for one entry of bt_dial_array
DialChar(d) ==
    IF d = 10 THEN 42           \* '*'
    ELSE IF d = 11 THEN 35      \* '#'
    ELSE (48 + d) % 256         \* '0' + d

_btSendDialNumber(s) ==
    _btSendTxPacket(
        SetTxBuf(s, <<0, 0>> \o [i \in 1..NUM_VALID_DIGITS |->
                                    DialChar(s.bt_dial_array[i - 1])]),
        12)

btSendPairingEnable(s) == _btSendTxPacket(SetTxBuf(s, <<2, 0, 93>>), 3)

\* pktP[0..l-1] copied to bt_tx_pkt_buf, then sent
btSendGenericPacket(s, pkt) == _btSendTxPacket(SetTxBuf(s, pkt), Len(pkt))

(***************************************************************************)
(* Line interface: the commands and events the radio machine uses          *)
(***************************************************************************)
RingPeriodOn == POTS_RING_ON_MSEC \div POTS_EVAL_MSEC

\* a pause one tick short
RingPeriodOffShort == (POTS_RING_OFF_MSEC \div POTS_EVAL_MSEC) - 1

RingPeriodOff == POTS_RING_OFF_MSEC \div POTS_EVAL_MSEC

RingHalfPulse == ((POTS_RING_ON_MSEC \div POTS_RING_FREQ_HZ) \div 2) \div POTS_EVAL_MSEC

_potsStartRing(s) ==
    [s EXCEPT !.pots_ring_state = "RING_PULSE_ON",
              !.pots_ring_period_count = RingPeriodOn,
              !.pots_ring_pulse_count = RingHalfPulse,
              !.pin_RM = "HIGH",
              !.pin_FR = "LOW"]

\* a ring end that leaves the ring bias on
_potsEndRingKeepBias(s) ==
    [s EXCEPT !.pots_ring_state = "RING_IDLE",
              !.pin_FR = "HIGH"]

_potsEndRing(s) ==
    [s EXCEPT !.pots_ring_state = "RING_IDLE",
              !.pin_FR = "HIGH",
              !.pin_RM = "LOW"]

potsSetInService(s, en) == [s EXCEPT !.pots_in_service = en]

potsSetInCall(s, en) == [s EXCEPT !.pots_in_call = en]

\* a ring start that does not look at the line state
potsSetRingAnyLineState(s, en) ==
    IF en
    THEN IF s.pots_ring_state = "RING_IDLE"
         THEN _potsStartRing(s)
         ELSE s
    ELSE IF s.pots_ring_state # "RING_IDLE"
         THEN _potsEndRing(s)
         ELSE s

\* a ring stop left to the next line tick
potsSetRingDeferred(s, en) ==
    IF en
    THEN IF s.pots_state = "ON_HOOK" /\ s.pots_ring_state = "RING_IDLE"
         THEN _potsStartRing(s)
         ELSE s
    ELSE s

potsSetRing(s, en) ==
    IF en
    THEN IF s.pots_state = "ON_HOOK" /\ s.pots_ring_state = "RING_IDLE"
         THEN _potsStartRing(s)
         ELSE s
    ELSE IF s.pots_ring_state # "RING_IDLE"
         THEN _potsEndRing(s)
         ELSE s

\* potsHookChange: the value returned, the value stored in *offHook when it
\* returns true, and the globals after the call
potsHookChangeRet(s) == s.pots_saw_hook_state_change

potsHookChangeOffHook(s) == s.pots_state # "ON_HOOK"

\* a read that leaves the flag set
potsHookChangeKeepsFlag(s) ==
    IF s.pots_saw_hook_state_change
    THEN Emit(s, Ev("hook", IF potsHookChangeOffHook(s) THEN "off" ELSE "on", "", <<>>))
    ELSE s

potsHookChange(s) ==
    IF s.pots_saw_hook_state_change
    THEN Emit([s EXCEPT !.pots_saw_hook_state_change = FALSE],
              Ev("hook", IF potsHookChangeOffHook(s) THEN "off" ELSE "on", "", <<>>))
    ELSE s

\* potsDigitDialed: likewise
potsDigitDialedRet(s) == s.pots_dial_new_digit

potsDigitDialedNum(s) == s.pots_dial_cur_digit

potsDigitDialed(s) ==
    IF s.pots_dial_new_digit
    THEN Emit([s EXCEPT !.pots_dial_new_digit = FALSE],
              Ev("digit", "", "", <<potsDigitDialedNum(s)>>))
    ELSE s

(***************************************************************************)
(* Radio machine: state entry                                              *)
(***************************************************************************)
ReconnectPeriods == BT_RECONNECT_MSEC \div BT_EVAL_MSEC

\* state entry that keeps the dialled digits
_btSetStateKeepDial(s, n) ==
    LET t == CASE n = "BT_DISCONNECTED" ->
                    [potsSetRing(potsSetInCall(potsSetInService(s, FALSE), FALSE), FALSE)
                        EXCEPT !.bt_reconnect_count = ReconnectPeriods]
               [] n = "BT_CONNECTED_IDLE" ->
                    potsSetRing(potsSetInCall(potsSetInService(s, TRUE), FALSE), FALSE)
               [] n = "BT_CALL_ACTIVE" ->
                    potsSetRing(potsSetInCall(_btSendSetSpeakerGain(s, 14), TRUE), FALSE)
               [] n = "BT_CALL_RECEIVED" ->
                    potsSetRing(s, TRUE)
               [] OTHER -> s
    IN  [Emit(t, Ev("state", s.bt_state, n, <<>>)) EXCEPT !.bt_state = n]

\* state entry that leaves the ring generator alone
_btSetStateKeepRing(s, n) ==
    LET t == CASE n = "BT_DISCONNECTED" ->
                    [potsSetInCall(potsSetInService(s, FALSE), FALSE)
                        EXCEPT !.bt_reconnect_count = ReconnectPeriods]
               [] n = "BT_CONNECTED_IDLE" ->
                    potsSetInCall(potsSetInService(s, TRUE), FALSE)
               [] n = "BT_DIALING" ->
                    [s EXCEPT !.bt_dial_index = 0]
               [] n = "BT_CALL_ACTIVE" ->
                    potsSetRing(potsSetInCall(_btSendSetSpeakerGain(s, 14), TRUE), FALSE)
               [] n = "BT_CALL_RECEIVED" ->
                    potsSetRing(s, TRUE)
               [] OTHER -> s
    IN  [Emit(t, Ev("state", s.bt_state, n, <<>>)) EXCEPT !.bt_state = n]

_btSetState(s, n) ==
    LET t == CASE n = "BT_DISCONNECTED" ->
                    [potsSetRing(potsSetInCall(potsSetInService(s, FALSE), FALSE), FALSE)
                        EXCEPT !.bt_reconnect_count = ReconnectPeriods]
               [] n = "BT_CONNECTED_IDLE" ->
                    potsSetRing(potsSetInCall(potsSetInService(s, TRUE), FALSE), FALSE)
               [] n = "BT_DIALING" ->
                    [s EXCEPT !.bt_dial_index = 0]
               [] n = "BT_CALL_ACTIVE" ->
                    potsSetRing(potsSetInCall(_btSendSetSpeakerGain(s, 14), TRUE), FALSE)
               [] n = "BT_CALL_RECEIVED" ->
                    potsSetRing(s, TRUE)
               [] OTHER -> s
    IN  [Emit(t, Ev("state", s.bt_state, n, <<>>)) EXCEPT !.bt_state = n]

(***************************************************************************)
(* Link protocol engine: receive                                           *)
(***************************************************************************)
_btProcessRxPkt(s) ==
    LET b == s.bt_rx_pkt_buf
        t == Emit(s, Ev("pkt", "", "", <<b[4]>>))
    IN  CASE b[4] = 1 ->
                IF b[5] = 5 THEN [t EXCEPT !.bt_in_service = TRUE]
                ELSE IF b[5] = 7 THEN [t EXCEPT !.bt_in_service = FALSE]
                ELSE t
          [] b[4] = 2 ->
                CASE b[6] = 0 -> [t EXCEPT !.bt_call_state = "CALL_IDLE"]
                  [] b[6] = 1 -> [t EXCEPT !.bt_call_state = "CALL_VOICEDIAL"]
                  [] b[6] = 2 -> [t EXCEPT !.bt_call_state = "CALL_INCOMING"]
                  [] b[6] = 3 -> [t EXCEPT !.bt_call_state = "CALL_OUTGOING"]
                  [] b[6] = 4 -> [t EXCEPT !.bt_call_state = "CALL_ACTIVE"]
                  [] OTHER -> t
          [] OTHER -> t

\* bt_rx_pkt_buf[i] = d; a write past the end of the array is recorded.
\* (bt_rx_pkt_buf is an array of char, which the Teensy's ARM compiler
\* treats as unsigned: the byte read back is the byte stored.)
RxStore(s, i, d) ==
    IF i \in 0..(BT_RX_PKT_BUF_LEN - 1)
    THEN [s EXCEPT !.bt_rx_pkt_buf[i] = d]
    ELSE [s EXCEPT !.rx_oob = TRUE]

\* bt_rx_pkt_buf[bt_rx_pkt_index++] = d
RxPush(s, d) ==
    [RxStore(s, s.bt_rx_pkt_index, d) EXCEPT !.bt_rx_pkt_index = @ + 1]

\* a dispatch that does not look at the checksum
RxDispatchAnyChecksum(s, d) ==
    IF s.bt_rx_pkt_buf[4] # 0
    THEN _btProcessRxPkt(_btSendEventAck(s, s.bt_rx_pkt_buf[4]))
    ELSE s

\* a dispatch that acknowledges after the packet is processed
RxDispatchAckLast(s, d) ==
    IF s.bt_rx_pkt_buf[4] # 0 /\ s.bt_rx_pkt_exp_chksum = d
    THEN _btSendEventAck(_btProcessRxPkt(s), s.bt_rx_pkt_buf[4])
    ELSE s

\* the BT_RX_CHKSUM case after the checksum is complemented and the byte stored
RxDispatch(s, d) ==
    IF s.bt_rx_pkt_buf[4] # 0 /\ s.bt_rx_pkt_exp_chksum = d
    THEN _btProcessRxPkt(_btSendEventAck(s, s.bt_rx_pkt_buf[4]))
    ELSE s

_btProcessRxData(s0, d) ==
    LET s == Emit(s0, Ev("rx", s0.bt_rx_pkt_state, "", <<d>>))
    IN  CASE s.bt_rx_pkt_state = "BT_RX_IDLE" ->
                IF d = 0
                THEN RxPush([s EXCEPT !.bt_rx_pkt_state = "BT_RX_SYNC",
                                      !.bt_rx_pkt_index = 0], d)
                ELSE s
          [] s.bt_rx_pkt_state = "BT_RX_SYNC" ->
                IF d = 170
                THEN RxPush([s EXCEPT !.bt_rx_pkt_state = "BT_RX_LEN_H"], d)
                ELSE [s EXCEPT !.bt_rx_pkt_state = "BT_RX_IDLE"]
          [] s.bt_rx_pkt_state = "BT_RX_LEN_H" ->
                RxPush([s EXCEPT !.bt_rx_pkt_state = "BT_RX_LEN_L",
                                 !.bt_rx_pkt_len = d * 256,
                                 !.bt_rx_pkt_exp_chksum = d], d)
          [] s.bt_rx_pkt_state = "BT_RX_LEN_L" ->
                RxPush([s EXCEPT !.bt_rx_pkt_state = "BT_RX_CMD",
                                 !.bt_rx_pkt_len = @ + d,
                                 !.bt_rx_pkt_exp_chksum = AddU8(@, d)], d)
          [] s.bt_rx_pkt_state = "BT_RX_CMD" ->
                RxPush([s EXCEPT !.bt_rx_pkt_state = "BT_RX_DATA",
                                 !.bt_rx_pkt_exp_chksum = AddU8(@, d)], d)
          [] s.bt_rx_pkt_state = "BT_RX_DATA" ->
                RxPush([s EXCEPT !.bt_rx_pkt_state =
                                    IF s.bt_rx_pkt_index = s.bt_rx_pkt_len + 3
                                    THEN "BT_RX_CHKSUM" ELSE @,
                                 !.bt_rx_pkt_exp_chksum = AddU8(@, d)], d)
          [] s.bt_rx_pkt_state = "BT_RX_CHKSUM" ->
                RxDispatch(
                    RxStore([s EXCEPT !.bt_rx_pkt_state = "BT_RX_IDLE",
                                      !.bt_rx_pkt_exp_chksum = TwosComplementU8(@)],
                            s.bt_rx_pkt_index, d),
                    d)
          [] OTHER -> [s EXCEPT !.bt_rx_pkt_state = "BT_RX_IDLE"]

(***************************************************************************)
(* The millisecond clock.  An unsigned long has 32 bits; a value is held   *)
(* as <<high half, low half>> with both halves in 0..65535.                *)
(***************************************************************************)
Half == 65536

\* a > b
Gt32(a, b) == a[1] > b[1] \/ (a[1] = b[1] /\ a[2] > b[2])

\* a >= b
Ge32(a, b) == ~Gt32(b, a)

\* a - b, a + b and ~a in 32 bits
Sub32(a, b) ==
    LET borrow == IF a[2] < b[2] THEN 1 ELSE 0
    IN  <<(a[1] - b[1] - borrow + Half) % Half, (a[2] - b[2] + Half) % Half>>

Add32(a, b) ==
    <<(a[1] + b[1] + ((a[2] + b[2]) \div Half)) % Half, (a[2] + b[2]) % Half>>

Not32(a) == <<(Half - 1) - a[1], (Half - 1) - a[2]>>

\* an elapsed time that is 0 whenever the clock is not ahead
deltaTNoWrap(curT, prevT) ==
    IF Gt32(curT, prevT) THEN Sub32(curT, prevT) ELSE <<0, 0>>

\* deltaT as _btEvalTimeout and _potsEvalTimeout compute it
deltaT(curT, prevT) ==
    IF Gt32(curT, prevT)
    THEN Sub32(curT, prevT)
    ELSE Add32(Not32(Sub32(prevT, curT)), <<0, 1>>)

\* _btEvalTimeout with millis() = curT: the value returned and the globals it
\* leaves; the trace gets the elapsed time
_btEvalTimeoutRet(s, curT) == Ge32(deltaT(curT, s.bt_prev_evalT), <<0, BT_EVAL_MSEC>>)

_btEvalTimeout(s, curT) ==
    LET t == Emit(s, Ev("elapsed", "bt", "", deltaT(curT, s.bt_prev_evalT)))
    IN  IF _btEvalTimeoutRet(s, curT) THEN [t EXCEPT !.bt_prev_evalT = curT] ELSE t

_potsEvalTimeoutRet(s, curT) == Ge32(deltaT(curT, s.pots_prev_evalT), <<0, POTS_EVAL_MSEC>>)

_potsEvalTimeout(s, curT) ==
    LET t == Emit(s, Ev("elapsed", "pots", "", deltaT(curT, s.pots_prev_evalT)))
    IN  IF _potsEvalTimeoutRet(s, curT) THEN [t EXCEPT !.pots_prev_evalT = curT] ELSE t

\* while (Serial1.available()) _btProcessRxData(Serial1.read())
RECURSIVE btEvalRx(_, _)
btEvalRx(s, q) ==
    IF q = <<>> THEN s ELSE btEvalRx(_btProcessRxData(s, Head(q)), Tail(q))


(***************************************************************************)
(* Radio machine: the state evaluation of btEval, run when _btEvalTimeout  *)
(* reports that BT_EVAL_MSEC have elapsed                                  *)
(***************************************************************************)
\* bt_dial_array[bt_dial_index++] = new_digit
DialStore(s, d) ==
    [s EXCEPT !.bt_dial_array =
                  IF s.bt_dial_index \in DOMAIN @
                  THEN [@ EXCEPT ![s.bt_dial_index] = d] ELSE @,
              !.bt_dial_index = @ + 1]

\* a hang-up that sends nothing
HangUpOnHookSilent(s) ==
    IF potsHookChangeRet(s)
    THEN IF ~potsHookChangeOffHook(s)
         THEN _btSetState(potsHookChange(s), "BT_CONNECTED_IDLE")
         ELSE potsHookChange(s)
    ELSE s

\* the hook test shared by the call states: drop the call when the
\* consumed hook event reports on-hook
HangUpOnHook(s) ==
    IF potsHookChangeRet(s)
    THEN IF ~potsHookChangeOffHook(s)
         THEN _btSetState(_btSendDropCall(potsHookChange(s)), "BT_CONNECTED_IDLE")
         ELSE potsHookChange(s)
    ELSE s

\* a reconnect test that fires one tick late
btEvalDisconnectedLate(s) ==
    IF s.bt_in_service
    THEN _btSetState(s, "BT_CONNECTED_IDLE")
    ELSE LET t == [s EXCEPT !.bt_reconnect_count = @ - 1]
         IN  IF t.bt_reconnect_count < 0
             THEN [_btSendLinkToSelectedDeviceIndex(t)
                      EXCEPT !.bt_reconnect_count = ReconnectPeriods]
             ELSE t

btEvalDisconnected(s) ==
    IF s.bt_in_service
    THEN _btSetState(s, "BT_CONNECTED_IDLE")
    ELSE LET t == [s EXCEPT !.bt_reconnect_count = @ - 1]
         IN  IF t.bt_reconnect_count <= 0
             THEN [_btSendLinkToSelectedDeviceIndex(t)
                      EXCEPT !.bt_reconnect_count = ReconnectPeriods]
             ELSE t

btEvalConnectedIdle(s) ==
    IF ~s.bt_in_service
    THEN _btSetState(s, "BT_DISCONNECTED")
    ELSE IF potsHookChangeRet(s)
    THEN IF potsHookChangeOffHook(s)
         THEN _btSetState(potsHookChange(s), "BT_DIALING")
         ELSE potsHookChange(s)
    ELSE IF s.bt_call_state = "CALL_INCOMING"
    THEN _btSetState(s, "BT_CALL_RECEIVED")
    ELSE s

\* a dialing state that sends the number one digit late
btEvalDialingLateSend(s) ==
    IF ~s.bt_in_service
    THEN _btSetState(s, "BT_DISCONNECTED")
    ELSE IF potsDigitDialedRet(s)
    THEN LET t == potsDigitDialed(s)
             new_digit == potsDigitDialedNum(s)
         IN  IF new_digit = 0 /\ t.bt_dial_index = 0
             THEN _btSetState(_btSendVoiceDial(t), "BT_CALL_INITIATED")
             ELSE LET u == DialStore(t, new_digit)
                  IN  IF u.bt_dial_index = NUM_VALID_DIGITS + 1
                      THEN _btSetState(_btSendDialNumber(u), "BT_CALL_INITIATED")
                      ELSE u
    ELSE IF potsHookChangeRet(s)
    THEN IF ~potsHookChangeOffHook(s)
         THEN _btSetState(potsHookChange(s), "BT_CONNECTED_IDLE")
         ELSE potsHookChange(s)
    ELSE s

btEvalDialing(s) ==
    IF ~s.bt_in_service
    THEN _btSetState(s, "BT_DISCONNECTED")
    ELSE IF potsDigitDialedRet(s)
    THEN LET t == potsDigitDialed(s)
             new_digit == potsDigitDialedNum(s)
         IN  IF new_digit = 0 /\ t.bt_dial_index = 0
             THEN _btSetState(_btSendVoiceDial(t), "BT_CALL_INITIATED")
             ELSE LET u == DialStore(t, new_digit)
                  IN  IF u.bt_dial_index = NUM_VALID_DIGITS
                      THEN _btSetState(_btSendDialNumber(u), "BT_CALL_INITIATED")
                      ELSE u
    ELSE IF potsHookChangeRet(s)
    THEN IF ~potsHookChangeOffHook(s)
         THEN _btSetState(potsHookChange(s), "BT_CONNECTED_IDLE")
         ELSE potsHookChange(s)
    ELSE s

\* a call state that treats a lost link like an ended call
btEvalCallActiveLinkLossIdle(s) ==
    IF ~s.bt_in_service
    THEN _btSetState(s, "BT_CONNECTED_IDLE")
    ELSE IF s.bt_call_state = "CALL_IDLE"
    THEN _btSetState(s, "BT_CONNECTED_IDLE")
    ELSE HangUpOnHook(s)

btEvalCallActive(s) ==
    IF ~s.bt_in_service
    THEN _btSetState(s, "BT_DISCONNECTED")
    ELSE IF s.bt_call_state = "CALL_IDLE"
    THEN _btSetState(s, "BT_CONNECTED_IDLE")
    ELSE HangUpOnHook(s)

btEvalCallInitiated(s) ==
    IF ~s.bt_in_service
    THEN _btSetState(s, "BT_DISCONNECTED")
    ELSE IF s.bt_call_state = "CALL_ACTIVE"
    THEN _btSetState(s, "BT_CALL_ACTIVE")
    ELSE IF s.bt_call_state = "CALL_OUTGOING"
    THEN _btSetState(s, "BT_CALL_OUTGOING")
    ELSE HangUpOnHook(s)

btEvalCallOutgoing(s) ==
    IF ~s.bt_in_service
    THEN _btSetState(s, "BT_DISCONNECTED")
    ELSE IF s.bt_call_state = "CALL_ACTIVE"
    THEN _btSetState(s, "BT_CALL_ACTIVE")
    ELSE IF s.bt_call_state = "CALL_IDLE"
    THEN _btSetState(s, "BT_CONNECTED_IDLE")
    ELSE HangUpOnHook(s)

\* an answer that is not reported to the phone
btEvalCallReceivedNoAccept(s) ==
    IF ~s.bt_in_service
    THEN _btSetState(s, "BT_DISCONNECTED")
    ELSE IF potsHookChangeRet(s)
    THEN IF potsHookChangeOffHook(s)
         THEN _btSetState(potsHookChange(s), "BT_CALL_ACTIVE")
         ELSE potsHookChange(s)
    ELSE IF s.bt_call_state # "CALL_INCOMING"
    THEN _btSetState(s, "BT_CONNECTED_IDLE")
    ELSE s

btEvalCallReceived(s) ==
    IF ~s.bt_in_service
    THEN _btSetState(s, "BT_DISCONNECTED")
    ELSE IF potsHookChangeRet(s)
    THEN IF potsHookChangeOffHook(s)
         THEN _btSetState(_btSendAcceptCall(potsHookChange(s)), "BT_CALL_ACTIVE")
         ELSE potsHookChange(s)
    ELSE IF s.bt_call_state # "CALL_INCOMING"
    THEN _btSetState(s, "BT_CONNECTED_IDLE")
    ELSE s

\* the switch (bt_state) of btEval; the first event of the trace names the
\* state the tick started in
btEvalState(s0) ==
    LET s == Emit(s0, Ev("tick", s0.bt_state, "", <<>>))
    IN  CASE s.bt_state = "BT_DISCONNECTED" -> btEvalDisconnected(s)
          [] s.bt_state = "BT_CONNECTED_IDLE" -> btEvalConnectedIdle(s)
          [] s.bt_state = "BT_DIALING" -> btEvalDialing(s)
          [] s.bt_state = "BT_CALL_ACTIVE" -> btEvalCallActive(s)
          [] s.bt_state = "BT_CALL_INITIATED" -> btEvalCallInitiated(s)
          [] s.bt_state = "BT_CALL_OUTGOING" -> btEvalCallOutgoing(s)
          [] s.bt_state = "BT_CALL_RECEIVED" -> btEvalCallReceived(s)

(***************************************************************************)
(* Line machine: the parts of potsEval the radio machine can observe       *)
(***************************************************************************)
\* a confirmation time one tick longer
OnHookDetectPeriodsLong == (POTS_ON_HOOK_DETECT_MSEC \div POTS_EVAL_MSEC) + 1

OnHookDetectPeriods == POTS_ON_HOOK_DETECT_MSEC \div POTS_EVAL_MSEC

\* a ringer whose half pulse ends without the polarity being restored
_potsEvalRingerNoRestore(s0, hookChange) ==
    LET s == IF hookChange /\ s0.pots_cur_off_hook /\ s0.pots_ring_state # "RING_IDLE"
             THEN _potsEndRing(s0) ELSE s0
    IN  CASE s.pots_ring_state = "RING_PULSE_ON" ->
                LET t == [s EXCEPT !.pots_ring_period_count = @ - 1,
                                   !.pots_ring_pulse_count = @ - 1]
                IN  IF t.pots_ring_pulse_count <= 0
                    THEN [t EXCEPT !.pots_ring_state = "RING_PULSE_OFF",
                                   !.pots_ring_pulse_count = RingHalfPulse]
                    ELSE t
          [] s.pots_ring_state = "RING_PULSE_OFF" ->
                LET t == [s EXCEPT !.pots_ring_period_count = @ - 1,
                                   !.pots_ring_pulse_count = @ - 1]
                IN  IF t.pots_ring_period_count <= 0 \/ t.pots_ring_pulse_count <= 0
                    THEN IF t.pots_ring_period_count <= 0
                         THEN [t EXCEPT !.pots_ring_state = "RING_BETWEEN",
                                        !.pots_ring_period_count = RingPeriodOff]
                         ELSE [t EXCEPT !.pots_ring_state = "RING_PULSE_ON",
                                        !.pots_ring_pulse_count = RingHalfPulse,
                                        !.pin_FR = "LOW"]
                    ELSE t
          [] s.pots_ring_state = "RING_BETWEEN" ->
                LET t == [s EXCEPT !.pots_ring_period_count = @ - 1]
                IN  IF t.pots_ring_period_count <= 0 THEN _potsStartRing(t) ELSE t
          [] OTHER -> s

_potsEvalRinger(s0, hookChange) ==
    LET s == IF hookChange /\ s0.pots_cur_off_hook /\ s0.pots_ring_state # "RING_IDLE"
             THEN _potsEndRing(s0) ELSE s0
    IN  CASE s.pots_ring_state = "RING_PULSE_ON" ->
                LET t == [s EXCEPT !.pots_ring_period_count = @ - 1,
                                   !.pots_ring_pulse_count = @ - 1]
                IN  IF t.pots_ring_pulse_count <= 0
                    THEN [t EXCEPT !.pin_FR = "HIGH",
                                   !.pots_ring_state = "RING_PULSE_OFF",
                                   !.pots_ring_pulse_count = RingHalfPulse]
                    ELSE t
          [] s.pots_ring_state = "RING_PULSE_OFF" ->
                LET t == [s EXCEPT !.pots_ring_period_count = @ - 1,
                                   !.pots_ring_pulse_count = @ - 1]
                IN  IF t.pots_ring_period_count <= 0 \/ t.pots_ring_pulse_count <= 0
                    THEN IF t.pots_ring_period_count <= 0
                         THEN [t EXCEPT !.pots_ring_state = "RING_BETWEEN",
                                        !.pots_ring_period_count = RingPeriodOff]
                         ELSE [t EXCEPT !.pots_ring_state = "RING_PULSE_ON",
                                        !.pots_ring_pulse_count = RingHalfPulse,
                                        !.pin_FR = "LOW"]
                    ELSE t
          [] s.pots_ring_state = "RING_BETWEEN" ->
                LET t == [s EXCEPT !.pots_ring_period_count = @ - 1]
                IN  IF t.pots_ring_period_count <= 0 THEN _potsStartRing(t) ELSE t
          [] OTHER -> s

\* the same with a cancelled ring taken for an answer
_potsEvalPhoneStateCancelAnswers(s, hookChange) ==
    CASE s.pots_state = "ON_HOOK" ->
            IF hookChange /\ s.pots_cur_off_hook
            THEN [s EXCEPT !.pots_state = "OFF_HOOK",
                           !.pots_saw_hook_state_change = TRUE]
            ELSE IF s.pots_ring_state # "RING_IDLE"
            THEN [s EXCEPT !.pots_state = "RINGING"]
            ELSE s
      [] s.pots_state = "OFF_HOOK" ->
            IF hookChange /\ ~s.pots_cur_off_hook
            THEN [s EXCEPT !.pots_state = "ON_HOOK_PROVISIONAL",
                           !.pots_state_count = 0]
            ELSE s
      [] s.pots_state = "ON_HOOK_PROVISIONAL" ->
            LET t == [s EXCEPT !.pots_state_count = @ + 1]
            IN  IF hookChange /\ t.pots_cur_off_hook
                THEN [t EXCEPT !.pots_state = "OFF_HOOK"]
                ELSE IF t.pots_state_count >= OnHookDetectPeriods
                THEN [t EXCEPT !.pots_state = "ON_HOOK",
                               !.pots_saw_hook_state_change = TRUE]
                ELSE t
      [] s.pots_state = "RINGING" ->
            IF s.pots_ring_state = "RING_IDLE"
            THEN [s EXCEPT !.pots_state = "OFF_HOOK",
                           !.pots_saw_hook_state_change = TRUE]
            ELSE s

\* the same with an event raised when the ring is cancelled
_potsEvalPhoneStateCancelEvent(s, hookChange) ==
    CASE s.pots_state = "ON_HOOK" ->
            IF hookChange /\ s.pots_cur_off_hook
            THEN [s EXCEPT !.pots_state = "OFF_HOOK",
                           !.pots_saw_hook_state_change = TRUE]
            ELSE IF s.pots_ring_state # "RING_IDLE"
            THEN [s EXCEPT !.pots_state = "RINGING"]
            ELSE s
      [] s.pots_state = "OFF_HOOK" ->
            IF hookChange /\ ~s.pots_cur_off_hook
            THEN [s EXCEPT !.pots_state = "ON_HOOK_PROVISIONAL",
                           !.pots_state_count = 0]
            ELSE s
      [] s.pots_state = "ON_HOOK_PROVISIONAL" ->
            LET t == [s EXCEPT !.pots_state_count = @ + 1]
            IN  IF hookChange /\ t.pots_cur_off_hook
                THEN [t EXCEPT !.pots_state = "OFF_HOOK"]
                ELSE IF t.pots_state_count >= OnHookDetectPeriods
                THEN [t EXCEPT !.pots_state = "ON_HOOK",
                               !.pots_saw_hook_state_change = TRUE]
                ELSE t
      [] s.pots_state = "RINGING" ->
            IF s.pots_ring_state = "RING_IDLE"
            THEN [s EXCEPT !.pots_state = IF s.pots_cur_off_hook
                                          THEN "OFF_HOOK" ELSE "ON_HOOK",
                           !.pots_saw_hook_state_change = TRUE]
            ELSE s

_potsEvalPhoneState(s, hookChange) ==
    CASE s.pots_state = "ON_HOOK" ->
            IF hookChange /\ s.pots_cur_off_hook
            THEN [s EXCEPT !.pots_state = "OFF_HOOK",
                           !.pots_saw_hook_state_change = TRUE]
            ELSE IF s.pots_ring_state # "RING_IDLE"
            THEN [s EXCEPT !.pots_state = "RINGING"]
            ELSE s
      [] s.pots_state = "OFF_HOOK" ->
            IF hookChange /\ ~s.pots_cur_off_hook
            THEN [s EXCEPT !.pots_state = "ON_HOOK_PROVISIONAL",
                           !.pots_state_count = 0]
            ELSE s
      [] s.pots_state = "ON_HOOK_PROVISIONAL" ->
            LET t == [s EXCEPT !.pots_state_count = @ + 1]
            IN  IF hookChange /\ t.pots_cur_off_hook
                THEN [t EXCEPT !.pots_state = "OFF_HOOK"]
                ELSE IF t.pots_state_count >= OnHookDetectPeriods
                THEN [t EXCEPT !.pots_state = "ON_HOOK",
                               !.pots_saw_hook_state_change = TRUE]
                ELSE t
      [] s.pots_state = "RINGING" ->
            IF s.pots_ring_state = "RING_IDLE"
            THEN IF s.pots_cur_off_hook
                 THEN [s EXCEPT !.pots_state = "OFF_HOOK",
                                !.pots_saw_hook_state_change = TRUE]
                 ELSE [s EXCEPT !.pots_state = "ON_HOOK"]
            ELSE s

(***************************************************************************)
(* Line machine: potsEval as the code runs it, every counter carried from  *)
(* tick to tick.  raw is the sample digitalRead(PIN_SHK) == HIGH, dtmf the *)
(* value _potsDtmfDigitFound returns (-1 when no tone pair is detected).   *)
(* _potsSetAudioOutput and the off-hook LED write nothing the model holds. *)
(***************************************************************************)
\* the value _potsEvalHook returns
_potsEvalHookRet(s, raw) ==
    \/ raw /\ s.pots_prev_off_hook /\ ~s.pots_cur_off_hook
    \/ ~raw /\ ~s.pots_prev_off_hook /\ s.pots_cur_off_hook

\* a hook input that is not debounced
_potsEvalHookFollowsSample(s, raw) ==
    [s EXCEPT !.pots_cur_off_hook = raw, !.pots_prev_off_hook = raw]

_potsEvalHook(s, raw) ==
    LET t == IF raw /\ s.pots_prev_off_hook /\ ~s.pots_cur_off_hook
             THEN [s EXCEPT !.pots_cur_off_hook = TRUE]
             ELSE IF ~raw /\ ~s.pots_prev_off_hook /\ s.pots_cur_off_hook
             THEN [s EXCEPT !.pots_cur_off_hook = FALSE]
             ELSE s
    IN  [t EXCEPT !.pots_prev_off_hook = raw]

RotBreakPeriods == POTS_ROT_BREAK_MSEC \div POTS_EVAL_MSEC

RotMakePeriods == POTS_ROT_MAKE_MSEC \div POTS_EVAL_MSEC

\* a driven threshold one tick short
DtmfDrivenPeriodsShort == (POTS_DTMF_DRIVEN_MSEC \div POTS_EVAL_MSEC) - 1

DtmfDrivenPeriods == POTS_DTMF_DRIVEN_MSEC \div POTS_EVAL_MSEC

DtmfSilentPeriods == POTS_DTMF_SILENT_MSEC \div POTS_EVAL_MSEC

\* _potsDtmfDigitFound: r holds the readings of the four row detectors and
\* c those of the three column detectors, in tenths of full scale.  A row
\* is taken when its reading is at or above the threshold, a column when
\* its reading is above it; the first row taken decides, then the first
\* column taken.
_potsDtmfDigitFoundStrictRows(r, c) ==
    LET col(d1, d2, d3) ==
            IF c[1] > POTS_DTMF_COL_THRESHOLD THEN d1
            ELSE IF c[2] > POTS_DTMF_COL_THRESHOLD THEN d2
            ELSE IF c[3] > POTS_DTMF_COL_THRESHOLD THEN d3
            ELSE -1
    IN  IF r[1] > POTS_DTMF_ROW_THRESHOLD THEN col(1, 2, 3)
        ELSE IF r[2] > POTS_DTMF_ROW_THRESHOLD THEN col(4, 5, 6)
        ELSE IF r[3] > POTS_DTMF_ROW_THRESHOLD THEN col(7, 8, 9)
        ELSE IF r[4] > POTS_DTMF_ROW_THRESHOLD
        THEN col(POTS_DTMF_ASTERISK_VAL, 0, POTS_DTMF_POUND_VAL)
        ELSE -1

_potsDtmfDigitFound(r, c) ==
    LET col(d1, d2, d3) ==
            IF c[1] > POTS_DTMF_COL_THRESHOLD THEN d1
            ELSE IF c[2] > POTS_DTMF_COL_THRESHOLD THEN d2
            ELSE IF c[3] > POTS_DTMF_COL_THRESHOLD THEN d3
            ELSE -1
    IN  IF r[1] >= POTS_DTMF_ROW_THRESHOLD THEN col(1, 2, 3)
        ELSE IF r[2] >= POTS_DTMF_ROW_THRESHOLD THEN col(4, 5, 6)
        ELSE IF r[3] >= POTS_DTMF_ROW_THRESHOLD THEN col(7, 8, 9)
        ELSE IF r[4] >= POTS_DTMF_ROW_THRESHOLD
        THEN col(POTS_DTMF_ASTERISK_VAL, 0, POTS_DTMF_POUND_VAL)
        ELSE -1

\* the value _potsEvalDialer returns (digit_dialed_detected)
_potsEvalDialerRet(s) ==
    \/ /\ s.pots_dial_state = "DIAL_MAKE"
       /\ s.pots_dial_period_count + 1 > RotMakePeriods
    \/ /\ s.pots_dial_state = "DIAL_DTMF_OFF"
       /\ s.pots_dial_period_count + 1 >= DtmfSilentPeriods

_potsEvalDialer(s, hookChange, cur_dtmf_digit) ==
    CASE s.pots_dial_state = "DIAL_IDLE" ->
            IF s.pots_state # "ON_HOOK"
            THEN IF hookChange /\ ~s.pots_cur_off_hook
                 THEN [s EXCEPT !.pots_dial_state = "DIAL_BREAK",
                                !.pots_dial_pulse_count = 0,
                                !.pots_dial_period_count = 0]
                 ELSE IF cur_dtmf_digit >= 0
                 THEN [s EXCEPT !.pots_dial_state = "DIAL_DTMF_ON",
                                !.pots_dial_prev_digit = cur_dtmf_digit,
                                !.pots_dial_period_count = 0]
                 ELSE s
            ELSE [s EXCEPT !.pots_dial_new_digit = FALSE]
      [] s.pots_dial_state = "DIAL_BREAK" ->
            LET t == [s EXCEPT !.pots_dial_period_count = @ + 1]
            IN  IF t.pots_dial_period_count > RotBreakPeriods
                THEN [t EXCEPT !.pots_dial_state = "DIAL_IDLE"]
                ELSE IF hookChange /\ t.pots_cur_off_hook
                THEN [t EXCEPT !.pots_dial_pulse_count =
                                   IF @ < 10 THEN @ + 1 ELSE @,
                               !.pots_dial_state = "DIAL_MAKE",
                               !.pots_dial_period_count = 0]
                ELSE t
      [] s.pots_dial_state = "DIAL_MAKE" ->
            LET t == [s EXCEPT !.pots_dial_period_count = @ + 1]
            IN  IF t.pots_dial_period_count > RotMakePeriods
                THEN [t EXCEPT !.pots_dial_new_digit = TRUE,
                               !.pots_dial_cur_digit =
                                   IF t.pots_dial_pulse_count = 10
                                   THEN 0 ELSE t.pots_dial_pulse_count,
                               !.pots_dial_state = "DIAL_IDLE"]
                ELSE IF hookChange /\ ~t.pots_cur_off_hook
                THEN [t EXCEPT !.pots_dial_state = "DIAL_BREAK",
                               !.pots_dial_period_count = 0]
                ELSE t
      [] s.pots_dial_state = "DIAL_DTMF_ON" ->
            LET t == [s EXCEPT !.pots_dial_period_count = @ + 1]
            IN  IF cur_dtmf_digit < 0
                THEN IF t.pots_dial_period_count >= DtmfDrivenPeriods
                     THEN [t EXCEPT !.pots_dial_state = "DIAL_DTMF_OFF",
                                    !.pots_dial_period_count = 0]
                     ELSE [t EXCEPT !.pots_dial_state = "DIAL_IDLE"]
                ELSE IF cur_dtmf_digit # t.pots_dial_prev_digit
                THEN [t EXCEPT !.pots_dial_state = "DIAL_IDLE"]
                ELSE t
      [] s.pots_dial_state = "DIAL_DTMF_OFF" ->
            LET t == [s EXCEPT !.pots_dial_period_count = @ + 1]
            IN  IF t.pots_dial_period_count >= DtmfSilentPeriods
                THEN [t EXCEPT !.pots_dial_new_digit = TRUE,
                               !.pots_dial_cur_digit = t.pots_dial_prev_digit,
                               !.pots_dial_state = "DIAL_IDLE"]
                ELSE IF cur_dtmf_digit >= 0
                THEN IF cur_dtmf_digit = t.pots_dial_prev_digit
                     THEN [t EXCEPT !.pots_dial_state = "DIAL_DTMF_ON"]
                     ELSE [t EXCEPT !.pots_dial_state = "DIAL_DTMF_ON",
                                    !.pots_dial_prev_digit = cur_dtmf_digit,
                                    !.pots_dial_period_count = 0]
                ELSE t

\* a receiver-off-hook time one tick short
RcvOffHookPeriodsShort == (POTS_RCV_OFF_HOOK_MSEC \div POTS_EVAL_MSEC) - 1

RcvOffHookPeriods == POTS_RCV_OFF_HOOK_MSEC \div POTS_EVAL_MSEC

\* a no-service beep one tick short
NsToneOnPeriodsShort == (POTS_NS_TONE_ON_MSEC \div POTS_EVAL_MSEC) - 1

NsToneOnPeriods == POTS_NS_TONE_ON_MSEC \div POTS_EVAL_MSEC

NsToneOffPeriods == POTS_NS_TONE_OFF_MSEC \div POTS_EVAL_MSEC

OhToneOnPeriods == POTS_OH_TONE_ON_MSEC \div POTS_EVAL_MSEC

OhToneOffPeriods == POTS_OH_TONE_OFF_MSEC \div POTS_EVAL_MSEC

\* a tone state entered with its timer loaded
ToneEnter(s, st, n) ==
    [s EXCEPT !.pots_tone_state = st, !.pots_tone_period_count = n]

\* the shared shape "if (--pots_tone_period_count <= 0) enter st"
ToneCountDown(s, st, n) ==
    LET t == [s EXCEPT !.pots_tone_period_count = @ - 1]
    IN  IF t.pots_tone_period_count <= 0 THEN ToneEnter(t, st, n) ELSE t

_potsEvalTone(s, hookChange, digitDialed) ==
    CASE s.pots_tone_state = "TONE_IDLE" ->
            IF hookChange /\ s.pots_cur_off_hook
            THEN IF s.pots_state = "RINGING"
                 THEN ToneEnter(s, "TONE_OFF", RcvOffHookPeriods)
                 ELSE IF s.pots_in_service
                 THEN ToneEnter(s, "TONE_DIAL", RcvOffHookPeriods)
                 ELSE ToneEnter(s, "TONE_NO_SERVICE_ON", NsToneOnPeriods)
            ELSE s
      [] s.pots_tone_state = "TONE_OFF" ->
            IF s.pots_state = "ON_HOOK"
            THEN [s EXCEPT !.pots_tone_state = "TONE_IDLE"]
            ELSE IF ~s.pots_in_call
            THEN ToneCountDown(s, "TONE_OFF_HOOK_ON", OhToneOnPeriods)
            ELSE [s EXCEPT !.pots_tone_period_count = RcvOffHookPeriods]
      [] s.pots_tone_state = "TONE_DIAL" ->
            IF (hookChange /\ ~s.pots_cur_off_hook) \/ digitDialed
            THEN ToneEnter(s, "TONE_OFF", RcvOffHookPeriods)
            ELSE ToneCountDown(s, "TONE_OFF_HOOK_ON", OhToneOnPeriods)
      [] s.pots_tone_state = "TONE_NO_SERVICE_ON" ->
            ToneCountDown(s, "TONE_NO_SERVICE_OFF", NsToneOffPeriods)
      [] s.pots_tone_state = "TONE_NO_SERVICE_OFF" ->
            IF s.pots_state = "ON_HOOK"
            THEN [s EXCEPT !.pots_tone_state = "TONE_IDLE"]
            ELSE ToneCountDown(s, "TONE_NO_SERVICE_ON", NsToneOnPeriods)
      [] s.pots_tone_state = "TONE_OFF_HOOK_ON" ->
            IF digitDialed
            THEN ToneEnter(s, "TONE_OFF", RcvOffHookPeriods)
            ELSE ToneCountDown(s, "TONE_OFF_HOOK_OFF", OhToneOffPeriods)
      [] s.pots_tone_state = "TONE_OFF_HOOK_OFF" ->
            IF digitDialed
            THEN ToneEnter(s, "TONE_OFF", RcvOffHookPeriods)
            ELSE IF s.pots_state = "ON_HOOK"
            THEN [s EXCEPT !.pots_tone_state = "TONE_IDLE"]
            ELSE ToneCountDown(s, "TONE_OFF_HOOK_ON", OhToneOnPeriods)

\* potsEval with a tone generator that is not told of the digit
potsEvalToneDeaf(s0, raw, dtmf) ==
    LET hook_changed == _potsEvalHookRet(s0, raw)
        s1 == _potsEvalHook(s0, raw)
        s2 == _potsEvalRinger(s1, hook_changed)
        digit_dialed == _potsEvalDialerRet(s2)
        s3 == _potsEvalDialer(s2, hook_changed, dtmf)
        s4 == _potsEvalTone(s3, hook_changed, FALSE)
        s5 == _potsEvalPhoneState(s4, hook_changed)
    IN  Emit(s5, Ev("pots", IF hook_changed THEN "hook" ELSE "",
                    IF digit_dialed THEN "digit" ELSE "",
                    <<IF raw THEN 1 ELSE 0, dtmf>>))

\* a tick whose tone generator does not see the call
potsEvalToneNoCall(s0, raw, dtmf) ==
    LET hook_changed == _potsEvalHookRet(s0, raw)
        s1 == _potsEvalHook(s0, raw)
        s2 == _potsEvalRinger(s1, hook_changed)
        digit_dialed == _potsEvalDialerRet(s2)
        s3 == _potsEvalDialer(s2, hook_changed, dtmf)
        s4 == [_potsEvalTone([s3 EXCEPT !.pots_in_call = FALSE],
                             hook_changed, digit_dialed)
                   EXCEPT !.pots_in_call = s3.pots_in_call]
        s5 == _potsEvalPhoneState(s4, hook_changed)
    IN  Emit(s5, Ev("pots", IF hook_changed THEN "hook" ELSE "",
                    IF digit_dialed THEN "digit" ELSE "",
                    <<IF raw THEN 1 ELSE 0, dtmf>>))

\* a tick that leaves the tone generator out while the raw sample is on-hook
potsEvalToneHeld(s0, raw, dtmf) ==
    LET hook_changed == _potsEvalHookRet(s0, raw)
        s1 == _potsEvalHook(s0, raw)
        s2 == _potsEvalRinger(s1, hook_changed)
        digit_dialed == _potsEvalDialerRet(s2)
        s3 == _potsEvalDialer(s2, hook_changed, dtmf)
        s4 == IF raw THEN _potsEvalTone(s3, hook_changed, digit_dialed) ELSE s3
        s5 == _potsEvalPhoneState(s4, hook_changed)
    IN  Emit(s5, Ev("pots", IF hook_changed THEN "hook" ELSE "",
                    IF digit_dialed THEN "digit" ELSE "",
                    <<IF raw THEN 1 ELSE 0, dtmf>>))

\* potsEval with POTS_EVAL_MSEC elapsed.  The trace holds one event: whether
\* the debounced hook value changed, whether the dial decoder finished a
\* digit, and the two samples the tick read.
potsEval(s0, raw, dtmf) ==
    LET hook_changed == _potsEvalHookRet(s0, raw)
        s1 == _potsEvalHook(s0, raw)
        s2 == _potsEvalRinger(s1, hook_changed)
        digit_dialed == _potsEvalDialerRet(s2)
        s3 == _potsEvalDialer(s2, hook_changed, dtmf)
        s4 == _potsEvalTone(s3, hook_changed, digit_dialed)
        s5 == _potsEvalPhoneState(s4, hook_changed)
    IN  Emit(s5, Ev("pots", IF hook_changed THEN "hook" ELSE "",
                    IF digit_dialed THEN "digit" ELSE "",
                    <<IF raw THEN 1 ELSE 0, dtmf>>))


\* what _potsEvalDialer leaves in the latched digit event: dig >= 0 is a
\* digit finalised in this tick (DIAL_MAKE or DIAL_DTMF_OFF), DialClear the
\* DIAL_IDLE branch taken with the line ON_HOOK, DialNone anything else
DialNone == -1

DialClear == -2

DialerOutcome(s, dig) ==
    IF dig >= 0
    THEN [s EXCEPT !.pots_dial_new_digit = TRUE, !.pots_dial_cur_digit = dig]
    ELSE IF dig = DialClear /\ s.pots_state = "ON_HOOK"
    THEN [s EXCEPT !.pots_dial_new_digit = FALSE]
    ELSE s

\* One line tick as the radio machine sees it, after any number of ticks in
\* which nothing happened.  hc is what _potsEvalHook returns (the debounced
\* hook value changed in this tick), expire says whether the hang-up
\* confirmation timer runs out in this tick, ring which of the ringer's two
\* timers runs out in this tick, dig is the dial decoder's outcome.  The
\* timers' counts are therefore not carried from tick to tick.  The tone
\* generator is left out: nothing it writes is read by the radio machine or
\* by the other sub-machines.
potsEvalObserved(s0, hc, expire, ring, dig) ==
    LET s1 == [s0 EXCEPT !.pots_cur_off_hook = IF hc THEN ~@ ELSE @,
                         !.pots_ring_period_count =
                             IF ring = "period" THEN 1 ELSE RingPeriodOff,
                         !.pots_ring_pulse_count =
                             IF ring = "pulse" THEN 1 ELSE RingHalfPulse + 1]
        s2 == _potsEvalRinger(s1, hc)
        s3 == DialerOutcome(s2, dig)
        s4 == _potsEvalPhoneState(
                  [s3 EXCEPT !.pots_state_count =
                      IF expire THEN OnHookDetectPeriods - 1 ELSE 0], hc)
    IN  [s4 EXCEPT !.pots_state_count = 0,
                   !.pots_ring_period_count = 0,
                   !.pots_ring_pulse_count = 0]

\* btInit(n): the radio globals it writes (the pin set-up and the reset pulse
\* to the BM64 write nothing the model holds)
btInit(s, n) ==
    [s EXCEPT !.bt_state = "BT_DISCONNECTED",
              !.bt_call_state = "CALL_IDLE",
              !.bt_in_service = FALSE,
              !.bt_rx_pkt_state = "BT_RX_IDLE",
              !.bt_rx_pkt_index = 0,
              !.bt_dial_index = 0,
              !.bt_reconnect_count = ReconnectPeriods,
              !.bt_link_device_index = n % 8]

btSetPairingNumber(s, n) == [s EXCEPT !.bt_link_device_index = n % 8]

\* a pairing number stored as it comes
btSetPairingNumberUnmasked(s, n) == [s EXCEPT !.bt_link_device_index = n]

\* eepInit: pairID is read from the EEPROM; a byte above 7 is replaced by 0
\* in pairID and in the EEPROM
eepInit(s) ==
    LET s1 == [s EXCEPT !.pairID = s.eeprom]
    IN  IF s1.pairID > 7 THEN [s1 EXCEPT !.pairID = 0, !.eeprom = 0] ELSE s1

\* cmdEval, states CMD_ST_VAL1 and CMD_ST_VAL2: the first value of a command
\* from its hex digits; CmdVal is an array of uint8_t
RECURSIVE CmdValOf(_, _)
CmdValOf(acc, digits) ==
    IF digits = <<>> THEN acc
    ELSE CmdValOf((acc * 16 + Head(digits)) % 256, Tail(digits))

\* ProcessCommand, case 'D', without the test of the value
ProcessCommandDAny(s, hasVal, val) ==
    IF hasVal /\ val # s.pairID
    THEN btSetPairingNumberUnmasked([s EXCEPT !.pairID = val, !.eeprom = val], val)
    ELSE s

\* ProcessCommand, case 'D'; val is CmdVal[0]
ProcessCommandD(s, hasVal, val) ==
    IF hasVal /\ ~(val > 7) /\ val # s.pairID
    THEN btSetPairingNumber([s EXCEPT !.pairID = val, !.eeprom = val], val)
    ELSE s

(***************************************************************************)
(* The state after setup() with the valid byte n in the EEPROM: eepInit,    *)
(* btInit(pairID), cmdInit, potsInit.                                      *)
(* Globals no init function writes hold the zero the C runtime gives them. *)
(***************************************************************************)
InitRec(n) ==
    [bt_state |-> "BT_DISCONNECTED", bt_call_state |-> "CALL_IDLE",
     bt_in_service |-> FALSE,
     bt_reconnect_count |-> ReconnectPeriods,
     bt_link_device_index |-> n % 8,
     bt_rx_pkt_state |-> "BT_RX_IDLE",
     bt_rx_pkt_buf |-> [i \in 0..(BT_RX_PKT_BUF_LEN - 1) |-> 0],
     bt_rx_pkt_index |-> 0, bt_rx_pkt_len |-> 0,
     bt_rx_pkt_exp_chksum |-> 0,
     bt_tx_pkt_buf |-> [i \in 0..(BT_TX_PKT_BUF_LEN - 1) |-> 0],
     bt_dial_index |-> 0,
     bt_dial_array |-> [i \in 0..(NUM_VALID_DIGITS - 1) |-> 0],
     pots_state |-> "ON_HOOK", pots_state_count |-> 0,
     pots_in_service |-> FALSE, pots_in_call |-> FALSE,
     pots_cur_off_hook |-> FALSE,
     pots_saw_hook_state_change |-> FALSE,
     pots_ring_state |-> "RING_IDLE",
     pots_ring_period_count |-> 0,
     pots_ring_pulse_count |-> 0,
     pots_dial_new_digit |-> FALSE,
     pots_dial_cur_digit |-> 0,
     pots_prev_off_hook |-> FALSE,
     pots_dial_state |-> "DIAL_IDLE",
     pots_dial_period_count |-> 0,
     pots_dial_pulse_count |-> 0,
     pots_dial_prev_digit |-> 0,
     pots_tone_state |-> "TONE_IDLE",
     pots_tone_period_count |-> 0,
     pin_FR |-> "HIGH", pin_RM |-> "LOW",
     bt_prev_evalT |-> <<0, 0>>, pots_prev_evalT |-> <<0, 0>>,
     pairID |-> n, eeprom |-> n,
     rx_oob |-> FALSE,
     ev |-> <<>>]

\* the program variables hold record r
Holds(r) ==
    /\ bt_state = r.bt_state
    /\ bt_call_state = r.bt_call_state
    /\ bt_in_service = r.bt_in_service
    /\ bt_reconnect_count = r.bt_reconnect_count
    /\ bt_link_device_index = r.bt_link_device_index
    /\ bt_rx_pkt_state = r.bt_rx_pkt_state
    /\ bt_rx_pkt_buf = r.bt_rx_pkt_buf
    /\ bt_rx_pkt_index = r.bt_rx_pkt_index
    /\ bt_rx_pkt_len = r.bt_rx_pkt_len
    /\ bt_rx_pkt_exp_chksum = r.bt_rx_pkt_exp_chksum
    /\ bt_tx_pkt_buf = r.bt_tx_pkt_buf
    /\ bt_dial_index = r.bt_dial_index
    /\ bt_dial_array = r.bt_dial_array
    /\ pots_state = r.pots_state
    /\ pots_state_count = r.pots_state_count
    /\ pots_in_service = r.pots_in_service
    /\ pots_in_call = r.pots_in_call
    /\ pots_cur_off_hook = r.pots_cur_off_hook
    /\ pots_saw_hook_state_change = r.pots_saw_hook_state_change
    /\ pots_ring_state = r.pots_ring_state
    /\ pots_ring_period_count = r.pots_ring_period_count
    /\ pots_ring_pulse_count = r.pots_ring_pulse_count
    /\ pots_dial_new_digit = r.pots_dial_new_digit
    /\ pots_dial_cur_digit = r.pots_dial_cur_digit
    /\ pots_prev_off_hook = r.pots_prev_off_hook
    /\ pots_dial_state = r.pots_dial_state
    /\ pots_dial_period_count = r.pots_dial_period_count
    /\ pots_dial_pulse_count = r.pots_dial_pulse_count
    /\ pots_dial_prev_digit = r.pots_dial_prev_digit
    /\ pots_tone_state = r.pots_tone_state
    /\ pots_tone_period_count = r.pots_tone_period_count
    /\ pin_FR = r.pin_FR
    /\ pin_RM = r.pin_RM
    /\ bt_prev_evalT = r.bt_prev_evalT
    /\ pots_prev_evalT = r.pots_prev_evalT
    /\ pairID = r.pairID
    /\ eeprom = r.eeprom
    /\ ev = r.ev
    /\ rx_oob = r.rx_oob

(***************************************************************************)
(* The serial line from the BM64                                           *)
(***************************************************************************)
\* all sequences over S of length 0..n
SeqsUpTo(S, n) == UNION {[1..k -> S] : k \in 0..n}

\* a frame as the BM64 sends it: sync, 16-bit length of opcode and
\* parameters, opcode and parameters, and the byte that makes the sum of
\* everything after the sync bytes 0 mod 256
WireFrame(body) ==
    LET l == Len(body)
        hl == <<(l \div 256) % 256, l % 256>>
    IN  <<0, 170>> \o hl \o body
            \o <<CHOOSE c \in Byte : (SumInt(hl \o body) + c) % 256 = 0>>

\* BTM_Status (0x01): HF/HS link established (5), HF link disconnected (7)
LinkUpFrame == WireFrame(<<1, 5, 0>>)

LinkDownFrame == WireFrame(<<1, 7, 0>>)

\* Call_Status (0x02): data base index 0, then the call status 0..4
CallStatusFrame(c) == WireFrame(<<2, 0, c>>)

StatusFrames == {LinkUpFrame, LinkDownFrame} \cup {CallStatusFrame(c) : c \in 0..4}

\* a frame with one byte changed on the way
Damage(f, kind) ==
    CASE kind = "checksum" -> [f EXCEPT ![Len(f)] = (@ + 1) % 256]
      [] kind = "sync" -> [f EXCEPT ![2] = 85]
      [] kind = "length" -> [f EXCEPT ![4] = (@ + 1) % 256]
      [] OTHER -> f

\* opcodes and parameter bytes of the frames of the byte-level model:
\* Command_ACK (0), BTM_Status (1), Call_Status (2) with the parameter
\* values the packet handler tells apart
InOps == {0, 1, 2}

InData == {2, 5}

InboundSequences ==
    {Damage(WireFrame(<<op>> \o pl), kind) :
        op \in InOps, pl \in SeqsUpTo(InData, MaxPayload),
        kind \in {"none", "checksum", "sync", "length"}}

\* opcode and payload bytes of the packets the console sends in the
\* loopback experiment (255 makes the checksum sum wrap)
LoopOps == {0, 2, 255}

LoopData == {93, 255}

LoopPackets == {<<op>> \o pl : op \in LoopOps, pl \in SeqsUpTo(LoopData, MaxPayload)}

(***************************************************************************)
(* Actions                                                                 *)
(***************************************************************************)
\* console command P=<bytes>: ProcessCommand calls btSendGenericPacket; the
\* frame written to Serial1 is wired back to the receive input
Loopback(pkt) ==
    /\ nframes < MaxFrames
    /\ wire = <<>>
    /\ bt_rx_pkt_state = "BT_RX_IDLE"
    /\ LET t == btSendGenericPacket(Emit(Cur, Ev("cmd", "P", "", pkt)), pkt)
       IN  /\ Commit(t)
           /\ wire' = t.ev[2].v
    /\ loop' = pkt
    /\ nframes' = nframes + 1
    /\ UNCHANGED <<number, dialed, attempts, down_ticks, down_cap, attempt_cap>>
    /\ UNCHANGED lineEnv

\* console command L: ProcessCommand calls btSendPairingEnable
CmdPairingEnable ==
    /\ Commit(btSendPairingEnable(Emit(Cur, Ev("cmd", "L", "", <<>>))))
    /\ UNCHANGED envVars
    /\ UNCHANGED lineEnv

\* the BM64 starts to send a byte sequence
Inject(f) ==
    /\ nframes < MaxFrames
    /\ wire = <<>>
    /\ wire' = f
    /\ loop' = <<>>
    /\ nframes' = nframes + 1
    /\ UNCHANGED progVars
    /\ UNCHANGED <<number, dialed, attempts, down_ticks, down_cap, attempt_cap>>
    /\ UNCHANGED lineEnv

\* btEval reads one byte that has arrived
RxByte ==
    /\ wire # <<>>
    /\ Commit(_btProcessRxData(Cur, Head(wire)))
    /\ wire' = Tail(wire)
    /\ UNCHANGED <<nframes, loop, number, dialed, attempts, down_ticks, down_cap,
                   attempt_cap>>
    /\ UNCHANGED lineEnv

\* btEval finds a whole status frame in the serial buffer and drains it
RxFrame(f) ==
    /\ Commit(btEvalRx(Cur, f))
    /\ UNCHANGED envVars
    /\ UNCHANGED lineEnv

\* the key the caller presses next: the number is keyed in order, and keyed
\* again from its first digit after the radio machine has taken all of it
NextKey ==
    IF number = <<>> THEN DialNone ELSE number[(Len(dialed) % Len(number)) + 1]

\* the tick would enter BT_DIALING
EntersDialing ==
    /\ bt_state = "BT_CONNECTED_IDLE"
    /\ bt_in_service
    /\ pots_saw_hook_state_change
    /\ pots_state # "ON_HOOK"

\* btEval with BT_EVAL_MSEC elapsed: the program and the call environment
RadioTickEnv ==
    /\ (bt_state = "BT_DISCONNECTED" /\ ~bt_in_service) => down_ticks < down_cap
    /\ EntersDialing => attempts < attempt_cap
    /\ Commit(btEvalState(Cur))
    /\ dialed' = IF EntersDialing THEN <<>>
                 ELSE IF bt_state = "BT_DIALING" /\ bt_in_service /\ pots_dial_new_digit
                 THEN Append(dialed, pots_dial_cur_digit)
                 ELSE dialed
    /\ attempts' = IF EntersDialing THEN attempts + 1 ELSE attempts
    /\ down_ticks' = IF bt_state = "BT_DISCONNECTED" /\ ~bt_in_service
                     THEN down_ticks + 1 ELSE 0
    /\ UNCHANGED <<wire, nframes, loop, number, down_cap, attempt_cap>>

RadioTick ==
    /\ RadioTickEnv
    /\ UNCHANGED lineEnv

RingTimers == {"none", "pulse", "period"}

\* console commands D and D=<digits>, up to the terminating character
CmdSetPairing(digits) ==
    LET hasVal == digits # <<>>
        val == CmdValOf(0, digits)
    IN  /\ Commit(ProcessCommandD(
                   Emit(Cur, Ev("cmd", "D", IF hasVal THEN "val" ELSE "", <<val>>)),
                   hasVal, val))
        /\ UNCHANGED <<envVars, mon>>

\* console command R: ProcessCommand calls btInit(pairID)
CmdResetEnv ==
    /\ Commit(btInit(Emit(Cur, Ev("cmd", "R", "", <<>>)), pairID))
    /\ down_ticks' = 0
    /\ UNCHANGED <<wire, nframes, loop, number, dialed, attempts, down_cap, attempt_cap>>

CmdReset ==
    /\ CmdResetEnv
    /\ UNCHANGED lineEnv

\* potsEval with POTS_EVAL_MSEC elapsed; a timer that is not running cannot
\* run out, and the dial decoder finishes a digit only with the receiver
\* lifted
LineTick(hc, expire, ring, dig) ==
    /\ expire => pots_state = "ON_HOOK_PROVISIONAL"
    /\ ring # "none" => pots_ring_state # "RING_IDLE"
    /\ dig >= 0 => pots_state \in {"OFF_HOOK", "ON_HOOK_PROVISIONAL"}
    /\ Commit(potsEvalObserved(Cur, hc, expire, ring, dig))
    /\ UNCHANGED envVars
    /\ UNCHANGED lineEnv

(***************************************************************************)
(* The line on its own: potsEval ticks with every timer running, and the   *)
(* calls the main sketch makes into pots.ino                               *)
(***************************************************************************)
DtmfNone == -1

\* lim counts what the environment has done: line ticks that changed
\* something, changes of the raw hook sample, consecutive raw off-hook
\* samples, ticks with a tone pair detected, potsSetRing calls, digits the
\* dial decoder has finished; run is the
\* number of raw samples in a row that are equal to the last one, as far
\* as MaxHookRun (at the start the handset has been on the hook for long);
\* phase is the number of line ticks since the last radio tick, frames the
\* number of status frames received
LimZero == [ticks |-> 0, flips |-> 0, lift |-> 0, tones |-> 0, rings |-> 0,
            run |-> MaxHookRun, digits |-> 0, phase |-> 0, frames |-> 0,
            cmds |-> 0, passes |-> 0, now |-> <<0, 0>>, radio |-> 0,
            beat |-> 0,
            key |-> <<>>]

\* mon measures, in line ticks: ring_age the time since the ring generator
\* was started, as far as MaxRingAge; hook_age the time since the debounced
\* hook value last changed, as far as MaxHookAge (at the start the handset
\* has been on the hook for long).  raw1 is the raw hook sample of the tick
\* before (-1 before the first tick).  train counts the rotary pulses of
\* the digit being dialled: the breaks of at most 10 ticks since the last
\* make or break of more than 10 ticks, as far as 11; clipped says that
\* the first of them began in the very tick in which the make that ended
\* the train before it reached 11 ticks (a train that was itself clipped to
\* nothing ends no digit, so the one after it is whole).
\* d_val is the last tone value the detector gave, d_run the number of
\* ticks in a row it has given that value up to now (0 in silence, as far
\* as 3), d_sil the number of silent ticks in a row up to now, as far as
\* MaxSilentAge (at the start the line has been silent for long); d_long
\* says that d_val has been given on 3 ticks in a row and that since then
\* no other value and no 3 silent ticks in a row have been seen.
\* tone_age is the time since the tone generator entered its present
\* state, as far as MaxToneAge; it is 0 while the generator is idle and
\* while it is off during a call, when no time is counted; tone1 is the
\* state it had before the last tick; d_state is the state the radio
\* machine was in when the dial decoder finished its last digit.
MonZero == [ring_age |-> 0, hook_age |-> MaxHookAge, raw1 |-> -1, train |-> 0,
            clipped |-> FALSE,
            d_val |-> DtmfNone, d_run |-> 0, d_sil |-> MaxSilentAge,
            d_long |-> FALSE, tone_age |-> 0, tone1 |-> "TONE_IDLE",
            d_state |-> ""]

\* the program variables other than the trace are the same in both records
Quiet(s, t) == [t EXCEPT !.ev = <<>>] = [s EXCEPT !.ev = <<>>]

MonTick(s, t, raw, dtmf) ==
    [mon EXCEPT
        !.ring_age = IF t.pots_ring_state = "RING_IDLE" THEN 0
                     ELSE IF @ < MaxRingAge THEN @ + 1 ELSE @,
        !.hook_age = IF t.ev[1].a = "hook" THEN 0
                     ELSE IF @ < MaxHookAge THEN @ + 1 ELSE @,
        !.raw1 = IF raw THEN 1 ELSE 0,
        !.train = IF t.ev[1].a = "hook" /\ t.pots_cur_off_hook
                  THEN IF mon.hook_age + 1 <= 10
                       THEN (IF @ < 11 THEN @ + 1 ELSE @)
                       ELSE 0
                  ELSE IF s.pots_cur_off_hook /\ mon.hook_age = 10
                  THEN 0
                  ELSE @,
        !.clipped = IF s.pots_cur_off_hook /\ mon.hook_age = 10
                    THEN /\ t.ev[1].a = "hook"
                         /\ mon.train > (IF mon.clipped THEN 1 ELSE 0)
                    ELSE IF t.ev[1].a = "hook" /\ t.pots_cur_off_hook
                            /\ mon.hook_age + 1 > 10
                    THEN FALSE
                    ELSE @,
        !.d_val = IF dtmf = DtmfNone THEN @ ELSE dtmf,
        !.d_run = IF dtmf = DtmfNone THEN 0
                  ELSE IF dtmf # mon.d_val \/ mon.d_sil > 0 THEN 1
                  ELSE IF @ < 3 THEN @ + 1 ELSE @,
        !.d_sil = IF dtmf # DtmfNone THEN 0
                  ELSE IF @ < MaxSilentAge THEN @ + 1 ELSE @,
        !.d_long = IF mon.d_sil >= 3 THEN FALSE
                   ELSE IF dtmf = DtmfNone THEN @
                   ELSE IF dtmf # mon.d_val THEN FALSE
                   ELSE @ \/ (mon.d_sil = 0 /\ mon.d_run >= 2),
        !.tone_age = IF \/ t.pots_tone_state = "TONE_IDLE"
                        \/ t.pots_tone_state = "TONE_OFF" /\ t.pots_in_call
                        \/ t.pots_tone_state # s.pots_tone_state
                     THEN 0
                     ELSE IF @ < MaxToneAge THEN @ + 1 ELSE @,
        !.tone1 = s.pots_tone_state,
        !.d_state = IF t.ev[1].b = "digit" THEN s.bt_state ELSE @]

\* a behaviour limited by its hook signal counts the changes of the raw
\* sample and the off-hook samples in a row
CountHook(l, raw) ==
    [l EXCEPT !.flips = IF raw # pots_prev_off_hook THEN @ + 1 ELSE @,
              !.lift = IF raw THEN @ + 1 ELSE 0]

\* a behaviour with the handset lifted and replaced once counts the
\* changes of the raw sample only
CountFlips(l, raw) ==
    [l EXCEPT !.flips = IF raw # pots_prev_off_hook THEN @ + 1 ELSE @]

\* a behaviour on the clock counts the line ticks since the radio tick
CountPhase(l) == [l EXCEPT !.phase = @ + 1]

\* a behaviour limited in time counts the ticks that change something
CountTicks(l, raw, dtmf) ==
    [l EXCEPT !.ticks = IF Quiet(Cur, potsEval(Cur, raw, dtmf))
                        THEN @ ELSE @ + 1]

\* a behaviour with a hook signal of given durations counts the samples of
\* the present level
CountRun(l, raw) ==
    [l EXCEPT !.run = IF raw # pots_prev_off_hook THEN 1
                      ELSE IF @ < MaxHookRun THEN @ + 1 ELSE @]

\* a behaviour of so many digits counts the digits the decoder finishes
CountDigits(l) ==
    [l EXCEPT !.digits = IF _potsEvalDialerRet(Cur) THEN @ + 1 ELSE @]

\* the durations, in samples, after which the raw hook signal may change:
\* the shortest level the debounce passes, the longest rotary break or
\* make and one more, the hang-up confirmation time and one less and one
\* more, and anything as long as MaxHookRun
HookRuns(level) ==
    IF level THEN {2, RotMakePeriods, RotMakePeriods + 1, MaxHookRun}
    ELSE {2, RotBreakPeriods, RotBreakPeriods + 1,
          OnHookDetectPeriods - 1, OnHookDetectPeriods, OnHookDetectPeriods + 1,
          MaxHookRun}

RunWithin(raw) == raw # pots_prev_off_hook => lim.run \in HookRuns(pots_prev_off_hook)

\* potsEval with POTS_EVAL_MSEC elapsed; l is what the environment has done
\* after this tick
PotsTick(raw, dtmf, l) ==
    LET t == potsEval(Cur, raw, dtmf)
    IN  /\ Commit(t)
        /\ lim' = l
        /\ mon' = MonTick(Cur, t, raw, dtmf)
        /\ UNCHANGED envVars

\* the main sketch calls potsSetRing(en)
CmdSetRing(en) ==
    LET t == potsSetRing(Emit(Cur, Ev("ring", IF en THEN "on" ELSE "off", "", <<>>)), en)
    IN  /\ Commit(t)
        /\ lim' = [lim EXCEPT !.rings = @ + 1]
        /\ mon' = IF t.pots_ring_state = pots_ring_state THEN mon
                  ELSE [mon EXCEPT !.ring_age = 0]
        /\ UNCHANGED envVars

\* the main sketch calls potsSetInService(en), potsSetInCall(en)
CmdSetInService(en) ==
    /\ Commit(potsSetInService(Emit(Cur, Ev("svc", IF en THEN "on" ELSE "off", "", <<>>)), en))
    /\ UNCHANGED <<envVars, lineEnv>>

CmdSetInCall(en) ==
    /\ Commit(potsSetInCall(Emit(Cur, Ev("call", IF en THEN "on" ELSE "off", "", <<>>)), en))
    /\ UNCHANGED <<envVars, lineEnv>>

\* btEval polls the line: potsHookChange, potsDigitDialed
PollHook ==
    /\ potsHookChangeRet(Cur)
    /\ Commit(potsHookChange(Cur))
    /\ UNCHANGED <<envVars, lineEnv>>

PollDigit ==
    /\ potsDigitDialedRet(Cur)
    /\ Commit(potsDigitDialed(Cur))
    /\ UNCHANGED <<envVars, lineEnv>>

\* the raw hook sample stays within what the behaviour allows: so many
\* changes of the sample, so many off-hook samples in a row
HookWithin(raw, maxFlips, maxLift) ==
    /\ raw # pots_prev_off_hook => lim.flips < maxFlips
    /\ raw => lim.lift < maxLift


(***************************************************************************)
(* Specifications                                                          *)
(***************************************************************************)
InitEnv(numbers, dcap, acap) ==
    /\ wire = <<>>
    /\ nframes = 0
    /\ loop = <<>>
    /\ number \in numbers
    /\ dialed = <<>>
    /\ attempts = 0
    /\ down_ticks = 0
    /\ down_cap = dcap
    /\ attempt_cap = acap
    /\ lim = LimZero
    /\ mon = MonZero

\* byte-level link model: frames looped back or sent by the BM64, one byte
\* per step
InitLink == Holds(InitRec(0)) /\ InitEnv({<<>>}, 0, 0)

NextLink ==
    \/ \E pkt \in LoopPackets : Loopback(pkt)
    \/ \E f \in InboundSequences : Inject(f)
    \/ RxByte
    \/ CmdPairingEnable

SpecLink == InitLink /\ [][NextLink]_vars

\* the declared lengths of the long frames: an opcode alone, the shortest
\* frame with data, the longest frame that fits the buffer, the next two,
\* and one that needs the high length byte
OverrunLengths == {1, 2, BT_RX_PKT_BUF_LEN - 5, BT_RX_PKT_BUF_LEN - 4,
                   BT_RX_PKT_BUF_LEN - 3, 300}

\* sync bytes, a declared length l and MaxOverrunBytes bytes of value 1
LongSequences ==
    {<<0, 170, l \div 256, l % 256>> \o [i \in 1..MaxOverrunBytes |-> 1] :
        l \in OverrunLengths}

\* long frames: the BM64 sends one of the sequences above, read byte by byte
NextOverrun ==
    \/ \E f \in LongSequences : Inject(f)
    \/ RxByte

SpecOverrun == InitLink /\ [][NextOverrun]_vars

\* call handling: radio ticks, whole status frames, line ticks
RadioNumbers == {<<0>>}

Init == Holds(InitRec(0)) /\ InitEnv(RadioNumbers, MaxDownTicks, MaxAttempts)

Next ==
    \/ RadioTick
    \/ \E f \in StatusFrames : RxFrame(f)
    \/ \E hc \in BOOLEAN, expire \in BOOLEAN, ring \in RingTimers,
            dig \in {DialNone, DialClear, NextKey} :
          LineTick(hc, expire, ring, dig)
    \/ CmdReset

Spec == Init /\ [][Next]_vars

\* reconnect: the link stays down for whole reconnect periods
PairIDs == {0, 5, 7}

InitReconnect ==
    /\ \E n \in PairIDs : Holds(InitRec(n))
    /\ InitEnv({<<>>}, MaxReconnects * ReconnectPeriods, 0)

NextReconnect ==
    \/ RadioTick
    \/ \E f \in {LinkUpFrame, LinkDownFrame} : RxFrame(f)

SpecReconnect == InitReconnect /\ [][NextReconnect]_vars


\* dialling: the link is up and the radio machine idle
DialNumbers ==
    {<<0>>,
     <<1, 2, 3, 4, 5, 6, 7, 8, 9, 0>>,
     <<10, 11, 0, 0, 5, 5, 11, 10, 9, 1>>,
     <<7, 0, 11, 11, 10, 2, 0, 6, 8, 3>>,
     <<11, 10, 9, 8, 7, 6, 5, 4, 3, 2>>,
     <<9, 9, 9, 9, 9, 9, 9, 9, 9, 9>>}

ConnectedIdleRec ==
    [btEvalState(btEvalRx(InitRec(0), LinkUpFrame)) EXCEPT !.ev = <<>>]

InitDial == Holds(ConnectedIdleRec) /\ InitEnv(DialNumbers, 0, MaxDialAttempts)

NextDial ==
    \/ RadioTick
    \/ \E hc \in BOOLEAN, expire \in BOOLEAN, dig \in {DialNone, DialClear, NextKey} :
          LineTick(hc, expire, "none", dig)

SpecDial == InitDial /\ [][NextDial]_vars

\* ringing: the line with ring commands, the handset lifted briefly
InitRing == Holds(InitRec(0)) /\ InitEnv({<<>>}, 0, 0)

NextRing ==
    \/ \E raw \in BOOLEAN :
          HookWithin(raw, MaxRingFlips, MaxRingLift) /\ PotsTick(raw, DtmfNone, CountHook(lim, raw))
    \/ \E en \in BOOLEAN : lim.rings < MaxRingCmds /\ CmdSetRing(en)

SpecRing == InitRing /\ [][NextRing]_vars

\* ringing under way: a call has come in with the handset on the hook and
\* the ring generator has been started; then as above, so that the one ring
\* command may be the one that cancels the ring
InitRinging ==
    /\ Holds([btEvalState(btEvalRx(ConnectedIdleRec, CallStatusFrame(2))) EXCEPT !.ev = <<>>])
    /\ InitEnv({<<>>}, 0, 0)

SpecRinging == InitRinging /\ [][NextRing]_vars

\* answering: as the ring model, with the radio link up and no call, so
\* that a lift of the handset outside a ring starts the dial tone
InitAnswer ==
    /\ Holds(ConnectedIdleRec)
    /\ InitEnv({<<>>}, 0, 0)

SpecAnswer == InitAnswer /\ [][NextRing]_vars

\* the state in which a received call has been answered: link up, call
\* status Incoming, the ring started, the handset lifted during the first
\* burst, the answer taken by btEval
AnsweredRec ==
    LET r1 == btEvalState(btEvalRx(ConnectedIdleRec, CallStatusFrame(2)))
        r2 == potsEval(potsEval(r1, TRUE, DtmfNone), TRUE, DtmfNone)
    IN  [btEvalState(r2) EXCEPT !.ev = <<>>]

\* hook switch during a call: a raw hook signal of the durations above, no
\* tones, the events polled; the handset is not lifted again once the
\* hang-up is confirmed
InitHook ==
    /\ Holds(AnsweredRec)
    /\ InitEnv({<<>>}, 0, 0)

NextHook ==
    \/ \E raw \in BOOLEAN :
          /\ lim.digits < MaxHookDigits
          /\ RunWithin(raw)
          /\ raw => pots_state # "ON_HOOK"
          /\ PotsTick(raw, DtmfNone, CountRun(CountDigits(lim), raw))
    \/ PollHook
    \/ PollDigit

SpecHook == InitHook /\ [][NextHook]_vars

\* the handset replaced and lifted again: a raw hook signal of the
\* durations above, which may go off-hook again at any of them, the line
\* ON_HOOK or not; it starts in an answered call or with the line idle and
\* the link up
InitRelift ==
    /\ Holds(AnsweredRec) \/ Holds(ConnectedIdleRec)
    /\ InitEnv({<<>>}, 0, 0)

NextRelift ==
    \/ \E raw \in BOOLEAN :
          /\ RunWithin(raw)
          /\ raw # pots_prev_off_hook => lim.flips < MaxReliftFlips
          /\ PotsTick(raw, DtmfNone, CountRun(CountFlips(lim, raw), raw))
    \/ PollHook
    \/ PollDigit

SpecRelift == InitRelift /\ [][NextRelift]_vars

\* debounce: any raw hook signal for a short time after start-up
InitDebounce == Holds(InitRec(0)) /\ InitEnv({<<>>}, 0, 0)

NextDebounce ==
    \E raw \in BOOLEAN :
        /\ lim.ticks < MaxDebounceTicks
        /\ PotsTick(raw, DtmfNone, CountTicks(lim, raw, DtmfNone))

SpecDebounce == InitDebounce /\ [][NextDebounce]_vars

\* the values the tone detector gives in the behaviours checked: silence,
\* the key 2, the key 5
DtmfSamples == {DtmfNone, 2, 5}

\* tone dialling during a call: the handset stays lifted, the detector
\* gives any of the values above in every tick, the events are polled
InitDtmf ==
    /\ Holds(AnsweredRec)
    /\ InitEnv({<<>>}, 0, 0)

NextDtmf ==
    \/ \E dtmf \in DtmfSamples :
          /\ lim.ticks < MaxDtmfTicks
          /\ PotsTick(TRUE, dtmf, CountTicks(lim, TRUE, dtmf))
    \/ PollDigit

SpecDtmf == InitDtmf /\ [][NextDtmf]_vars

\* a detector reading n tenths below, at or above its threshold is
\* threshold + n; OneAt(n, i, v) is n readings with reading i at v and the
\* others below
OneAt(n, i, v) == [k \in 1..n |-> IF k = i THEN v ELSE POTS_DTMF_ROW_THRESHOLD - 1]

\* the readings of the row detectors in the behaviours checked: one row
\* above the threshold, one row exactly at it, none, and two rows at once
\* (above and above, at and above)
RowReadings ==
    {OneAt(4, i, POTS_DTMF_ROW_THRESHOLD + 1) : i \in 1..4}
        \cup {OneAt(4, i, POTS_DTMF_ROW_THRESHOLD) : i \in 1..4}
        \cup {OneAt(4, 0, 0), <<3, 3, 1, 1>>, <<2, 3, 1, 1>>, <<1, 1, 3, 3>>}

\* the same for the column detectors
ColReadings ==
    {OneAt(3, j, POTS_DTMF_COL_THRESHOLD + 1) : j \in 1..3}
        \cup {OneAt(3, 0, 0), <<2, 1, 1>>, <<1, 3, 3>>, <<2, 3, 1>>}

\* no detector hears anything
QuietRows == OneAt(4, 0, 0)

QuietCols == OneAt(3, 0, 0)

\* one line tick with the detector readings r and c: cur_dtmf_digit is
\* what _potsDtmfDigitFound makes of them; the readings are kept in lim.key
KeypadTick(raw, r, c, l) ==
    PotsTick(raw, _potsDtmfDigitFound(r, c), [l EXCEPT !.key = <<r, c>>])

\* a key is pressed once: the detectors give any of the readings above in
\* the first tick, the same readings for as long as a tone must last, and
\* nothing from then on
KeyHeld(r, c) ==
    IF lim.ticks = 0 THEN TRUE
    ELSE IF lim.ticks < DtmfDrivenPeriods THEN <<r, c>> = lim.key
    ELSE r = QuietRows /\ c = QuietCols

\* dialling during a call, by dial and by keypad: a raw hook signal of the
\* durations above with the detectors quiet, and, while the handset has
\* been at rest off the hook for long, one key pressed; the events are
\* polled
InitKeypad ==
    /\ Holds(AnsweredRec)
    /\ InitEnv({<<>>}, 0, 0)

NextKeypad ==
    \/ \E raw \in BOOLEAN :
          /\ lim.digits < MaxKeypadDigits
          /\ lim.ticks \in {0, MaxKeypadTicks}
          /\ RunWithin(raw)
          /\ raw => pots_state # "ON_HOOK"
          /\ KeypadTick(raw, QuietRows, QuietCols,
                        CountRun(CountDigits(lim), raw))
    \/ \E r \in RowReadings, c \in ColReadings :
          /\ lim.digits < MaxKeypadDigits
          /\ lim.ticks < MaxKeypadTicks
          /\ KeyHeld(r, c)
          /\ lim.run = MaxHookRun
          /\ pots_prev_off_hook
          /\ pots_dial_state \notin {"DIAL_BREAK", "DIAL_MAKE"}
          /\ KeypadTick(TRUE, r, c,
                        [CountDigits(lim) EXCEPT !.ticks = @ + 1])
    \/ PollHook
    \/ PollDigit

SpecKeypad == InitKeypad /\ [][NextKeypad]_vars

\* the moments, in ticks after the tone generator entered its state, at
\* which a key is pressed or the handset replaced
ToneTimes == {1, 5}

\* a key press is one value on 3 ticks in a row after a long silence,
\* then silence; it begins at one of the moments given
KeyWithinAt(dtmf, times) ==
    IF mon.d_sil = 0
    THEN IF mon.d_run < 3 THEN dtmf = mon.d_val ELSE dtmf = DtmfNone
    ELSE \/ dtmf = DtmfNone
         \/ /\ dtmf # DtmfNone
            /\ mon.d_sil >= MaxSilentAge
            /\ lim.digits < MaxToneDigits
            /\ mon.tone_age \in times

KeyWithin(dtmf) == KeyWithinAt(dtmf, ToneTimes)

\* the handset is lifted once, at any time, and replaced at most once, at
\* one of the moments given
LiftWithinAt(raw, times) ==
    raw # pots_prev_off_hook
        => IF raw THEN lim.flips = 0
           ELSE /\ lim.flips = 1
                /\ pots_cur_off_hook
                /\ mon.tone_age \in times

LiftWithin(raw) == LiftWithinAt(raw, ToneTimes)

\* the no-service tone is on or off
InNoService == pots_tone_state \in {"TONE_NO_SERVICE_ON", "TONE_NO_SERVICE_OFF"}

\* tones to the handset: the line idle with the radio link down or up, the
\* handset lifted, keys pressed, the handset replaced, the events polled;
\* during the no-service tone the service comes and goes and calls begin
\* and end
InitTone ==
    /\ Holds(InitRec(0)) \/ Holds(ConnectedIdleRec)
    /\ InitEnv({<<>>}, 0, 0)

NextTone ==
    \/ \E raw \in BOOLEAN, dtmf \in {DtmfNone, 2} :
          /\ LiftWithin(raw)
          /\ KeyWithin(dtmf)
          /\ PotsTick(raw, dtmf, CountFlips(CountDigits(lim), raw))
    \/ PollHook
    \/ PollDigit
    \/ \E en \in BOOLEAN : InNoService /\ CmdSetInService(en)
    \/ \E en \in BOOLEAN : InNoService /\ CmdSetInCall(en)

SpecTone == InitTone /\ [][NextTone]_vars

\* the moments, in ticks of silence counted outside a call, at which the
\* main sketch calls potsSetInCall: at once (and at any time during a
\* call, when no time is counted), early, and before the last tick of the
\* receiver-off-hook time
WarnTimes == {0, 2, RcvOffHookPeriods - 1}

\* the handset, lifted, is replaced at most once, at one of the moments
\* given, and stays on the hook
HangUpWithinAt(raw, times) ==
    /\ raw => pots_prev_off_hook
    /\ ~raw /\ pots_prev_off_hook => mon.tone_age \in times

\* the receiver left off the hook: a call has been answered and is
\* active; the call ends and begins (potsSetInCall) while the tone
\* generator is off, keys are pressed, the handset is replaced, the events
\* are polled
InitWarn ==
    /\ Holds(AnsweredRec)
    /\ InitEnv({<<>>}, 0, 0)

WarnSetInCall(en) ==
    /\ lim.cmds < MaxWarnCmds
    /\ en # pots_in_call
    /\ pots_tone_state = "TONE_OFF"
    /\ pots_prev_off_hook
    /\ mon.tone_age \in WarnTimes
    /\ Commit(potsSetInCall(Emit(Cur, Ev("call", IF en THEN "on" ELSE "off", "", <<>>)), en))
    /\ lim' = [lim EXCEPT !.cmds = @ + 1]
    /\ UNCHANGED <<envVars, mon>>

NextWarn ==
    \/ \E raw \in BOOLEAN, dtmf \in {DtmfNone, 2} :
          /\ HangUpWithinAt(raw, ToneTimes)
          /\ KeyWithin(dtmf)
          /\ PotsTick(raw, dtmf, CountFlips(CountDigits(lim), raw))
    \/ PollHook
    \/ PollDigit
    \/ \E en \in BOOLEAN : WarnSetInCall(en)

SpecWarn == InitWarn /\ [][NextWarn]_vars

\* the moments, in ticks after the tone generator entered its state, at
\* which a key is pressed or the handset replaced during call handling:
\* any time while no tone time is counted
CallTimes == {0, 1, 5}

\* the key pressed during call handling: 0, which as the first digit asks
\* for voice dialling
CallKeys == {DtmfNone, 0}

\* the status frames of call handling: the link up and down, the call
\* status idle, outgoing and active
CallFrames == {LinkUpFrame, LinkDownFrame} \cup {CallStatusFrame(c) : c \in {0, 3, 4}}

\* the moments, in ticks after the tone generator entered its state, at
\* which a status frame arrives
CallFrameTimes == 0..2

\* line ticks in one radio tick: BT_EVAL_MSEC / POTS_EVAL_MSEC
LineTicksPerRadioTick == BT_EVAL_MSEC \div POTS_EVAL_MSEC

\* the caller does not leave the handset lifted for more than
\* MaxIdleTicks ticks of dial tone or of silence outside a call
HangsUpInTime(raw) ==
    (/\ pots_tone_state \in {"TONE_DIAL", "TONE_OFF"}
     /\ mon.tone_age >= MaxIdleTicks) => ~raw

\* calls with the line as the code runs it, on the clock: two line ticks,
\* then the status frame that has arrived, if any, and the radio tick;
\* the handset is lifted once and replaced at most once, the key 0 is
\* pressed while it is lifted
InitCall == Holds(InitRec(0)) /\ InitEnv({<<>>}, MaxDownTicks, MaxAttempts)

CallLineTick(raw, dtmf) ==
    /\ lim.phase < LineTicksPerRadioTick
    /\ PotsTick(raw, dtmf, CountPhase(CountFlips(CountDigits(lim), raw)))

CallRxFrame(f) ==
    /\ lim.phase = LineTicksPerRadioTick
    /\ lim.frames < MaxCallFrames
    /\ mon.tone_age \in CallFrameTimes
    /\ Commit(btEvalRx(Cur, f))
    /\ lim' = [lim EXCEPT !.frames = @ + 1]
    /\ UNCHANGED <<envVars, mon>>

CallRadioTick ==
    /\ lim.phase = LineTicksPerRadioTick
    /\ RadioTickEnv
    /\ lim' = [lim EXCEPT !.phase = 0]
    /\ UNCHANGED mon

NextCall ==
    \/ \E raw \in BOOLEAN, dtmf \in CallKeys :
          /\ LiftWithinAt(raw, CallTimes)
          /\ KeyWithinAt(dtmf, CallTimes)
          /\ HangsUpInTime(raw)
          /\ dtmf # DtmfNone => raw
          /\ CallLineTick(raw, dtmf)
    \/ \E f \in CallFrames : CallRxFrame(f)
    \/ CallRadioTick

SpecCall == InitCall /\ [][NextCall]_vars

\* the line events while nobody reads them: the same on the clock, with
\* the link down for MaxLatchDownTicks radio ticks and then up, and no
\* calls
InitLatch == Holds(InitRec(0)) /\ InitEnv({<<>>}, MaxLatchDownTicks, MaxAttempts)

NextLatch ==
    \/ \E raw \in BOOLEAN, dtmf \in CallKeys :
          /\ LiftWithinAt(raw, CallTimes)
          /\ KeyWithinAt(dtmf, CallTimes)
          /\ HangsUpInTime(raw)
          /\ CallLineTick(raw, dtmf)
    \/ down_ticks = down_cap /\ CallRxFrame(LinkUpFrame)
    \/ CallRadioTick

SpecLatch == InitLatch /\ [][NextLatch]_vars


\* pairing: any byte may be in the EEPROM at power-up; the console sets
\* the pairing ID (hex digits, the longest one digit more than the usage
\* allows) or resets the BM64, at the start of a reconnect period or just
\* before its end, and the link stays down
EepBytes == {0, 5, 8, 255}
PairDigits == {<<>>, <<0>>, <<7>>, <<8>>, <<1, 3>>, <<15, 15>>, <<1, 0, 5>>}
PairCmdTimes == {ReconnectPeriods, 1}

\* setup() with the byte b in the EEPROM
SetupRec(b) ==
    LET e == eepInit([InitRec(0) EXCEPT !.eeprom = b])
    IN  btInit(e, e.pairID)

InitPair ==
    /\ \E b \in EepBytes : Holds(SetupRec(b))
    /\ InitEnv({<<>>}, ReconnectPeriods, 0)

PairCmd ==
    /\ lim.cmds < MaxPairCmds
    /\ bt_reconnect_count \in PairCmdTimes
    /\ lim' = [lim EXCEPT !.cmds = @ + 1]

NextPair ==
    \/ RadioTick
    \/ \E digits \in PairDigits : PairCmd /\ CmdSetPairing(digits)
    \/ PairCmd /\ CmdResetEnv /\ UNCHANGED mon

SpecPair == InitPair /\ [][NextPair]_vars


\* the clock: passes of loop() with the link down and the line idle.  The
\* clock starts anywhere, also just before it wraps, and a pass comes any
\* time after the one before it, also after most of a turn of the clock.
ClockStarts == {<<0, 0>>, <<32767, 65535>>, <<65535, 65530>>}
ClockSteps == {<<0, 0>>, <<0, 1>>, <<0, 9>>, <<0, 10>>, <<0, 11>>, <<0, 19>>,
               <<0, 20>>, <<0, 21>>, <<1, 0>>, <<32768, 0>>, <<65535, 65526>>,
               <<65535, 65535>>}

\* btEval and potsEval with millis() = curT, no byte on the serial line, the
\* handset on the hook and no tone pair detected
btEvalAt(s, curT) ==
    IF _btEvalTimeoutRet(s, curT)
    THEN btEvalState(_btEvalTimeout(s, curT))
    ELSE _btEvalTimeout(s, curT)

potsEvalAt(s, curT, raw, dtmf) ==
    IF _potsEvalTimeoutRet(s, curT)
    THEN potsEval(_potsEvalTimeout(s, curT), raw, dtmf)
    ELSE _potsEvalTimeout(s, curT)

InitClock ==
    /\ \E t0 \in ClockStarts :
          /\ Holds([InitRec(0) EXCEPT !.bt_prev_evalT = t0, !.pots_prev_evalT = t0])
          /\ lim = [LimZero EXCEPT !.now = t0]
    /\ wire = <<>> /\ nframes = 0 /\ loop = <<>> /\ number = <<>>
    /\ dialed = <<>> /\ attempts = 0 /\ down_ticks = 0
    /\ down_cap = 0 /\ attempt_cap = 0
    /\ mon = MonZero

LoopPass(d) ==
    LET curT == Add32(lim.now, d)
    IN  /\ lim.passes < MaxClockPasses
        /\ Commit(potsEvalAt(btEvalAt(Cur, curT), curT, FALSE, DtmfNone))
        /\ lim' = [lim EXCEPT !.passes = @ + 1, !.now = curT]
        /\ UNCHANGED <<envVars, mon>>

NextClock == \E d \in ClockSteps : LoopPass(d)

SpecClock == InitClock /\ [][NextClock]_vars


\* n line ticks in a row with the raw hook sample raw and no tone pair
RECURSIVE LineTicks(_, _, _)
LineTicks(s, raw, n) ==
    IF n = 0 THEN s
    ELSE IF n = 1 THEN [potsEval(s, raw, DtmfNone) EXCEPT !.ev = <<>>]
    ELSE LET h == LineTicks(s, raw, n \div 2)
         IN  IF h.ev = <<>> THEN LineTicks(h, raw, n - (n \div 2)) ELSE s

\* the radio machine in each of its states with the handset as it is then:
\* the handset lifted with the link up; the key 0 pressed for 30 ms and
\* released, which asks for voice dialling; the call reported outgoing; a
\* call coming in with the handset on the hook
DialingRec ==
    [btEvalState(LineTicks(ConnectedIdleRec, TRUE, 2)) EXCEPT !.ev = <<>>]

CallInitiatedRec ==
    LET r1 == potsEval(potsEval(potsEval(DialingRec, TRUE, 0), TRUE, 0), TRUE, 0)
        r2 == LineTicks([r1 EXCEPT !.ev = <<>>], TRUE, 1 + DtmfSilentPeriods)
    IN  [btEvalState(r2) EXCEPT !.ev = <<>>]

CallOutgoingRec ==
    [btEvalState(btEvalRx(CallInitiatedRec, CallStatusFrame(3))) EXCEPT !.ev = <<>>]

CallReceivedRec ==
    [btEvalState(btEvalRx(ConnectedIdleRec, CallStatusFrame(2))) EXCEPT !.ev = <<>>]

\* coming to rest.  The behaviour starts after setup, in any state of the
\* radio machine, or with the handset left lifted into the pause of the
\* no-service tone, into the receiver-off-hook tone or into its pause.
\* For MaxRestTicks line ticks the handset and the keys do anything, the
\* link may go down or come up and the radio machine ticks; after that
\* the line ticks go on for ever with the handset on the hook and no tone
\* pair.
RestRecs ==
    {InitRec(0), ConnectedIdleRec, DialingRec, CallInitiatedRec,
     CallOutgoingRec, CallReceivedRec, AnsweredRec,
     LineTicks(InitRec(0), TRUE, 2 + NsToneOnPeriods),
     LineTicks(ConnectedIdleRec, TRUE, 2 + RcvOffHookPeriods),
     LineTicks(ConnectedIdleRec, TRUE, 2 + RcvOffHookPeriods + OhToneOnPeriods)}

RestFrames == {LinkUpFrame, LinkDownFrame}

InitRest ==
    /\ \E r \in RestRecs : Holds(r)
    /\ InitEnv({<<>>}, 0, 0)

RestFreeTick(raw, dtmf) ==
    /\ dtmf # DtmfNone => raw
    /\ lim.ticks < MaxRestTicks
    /\ Commit(potsEval(Cur, raw, dtmf))
    /\ lim' = [lim EXCEPT !.ticks = @ + 1]
    /\ UNCHANGED <<envVars, mon>>

RestTick ==
    /\ lim.ticks = MaxRestTicks
    /\ Commit(potsEval(Cur, FALSE, DtmfNone))
    /\ lim' = [lim EXCEPT !.beat = 1 - @]
    /\ UNCHANGED <<envVars, mon>>

\* what every RestTick step does to lim, and no other step
RestBeat ==
    /\ lim.ticks = MaxRestTicks
    /\ lim' = [lim EXCEPT !.beat = 1 - @]

RestRadioTick ==
    /\ lim.radio < MaxRestRadioTicks
    /\ Commit(btEvalState(Cur))
    /\ lim' = [lim EXCEPT !.radio = @ + 1]
    /\ UNCHANGED <<envVars, mon>>

RestRxFrame(f) ==
    /\ lim.frames < MaxRestFrames
    /\ lim.ticks < MaxRestTicks
    /\ Commit(btEvalRx(Cur, f))
    /\ lim' = [lim EXCEPT !.frames = @ + 1]
    /\ UNCHANGED <<envVars, mon>>

NextRest ==
    \/ \E raw \in BOOLEAN, dtmf \in CallKeys : RestFreeTick(raw, dtmf)
    \/ RestTick
    \/ RestRadioTick
    \/ \E f \in RestFrames : RestRxFrame(f)

\* loop() calls potsEval in every pass, so line ticks keep coming: a
\* RestTick step is taken again and again
SpecRest == InitRest /\ [][NextRest]_vars /\ WF_lim(RestBeat)

(***************************************************************************)
(* Properties of the link protocol engine (SpecLink)                       *)
(***************************************************************************)
\* the kinds of the events of a trace, in order
Kinds(t) == [i \in 1..Len(t) |-> t[i].k]

\* the step reads the last byte of a looped-back frame
LastLoopByte == loop # <<>> /\ Len(wire) = 1 /\ wire' = <<>>

\* what the parser holds after the last byte of the looped-back frame
LoopFrameDecoded ==
    /\ bt_rx_pkt_state = "BT_RX_CHKSUM"
    /\ bt_rx_pkt_exp_chksum' = wire[1]
    /\ bt_rx_pkt_buf'[4] = loop[1]
    /\ \A i \in 2..Len(loop) : bt_rx_pkt_buf'[3 + i] = loop[i]
    /\ bt_rx_pkt_state' = "BT_RX_IDLE"

\* C1: round trip.  For every opcode and every payload, the empty payload
\* included, when the parser (started in Idle) reads the last byte of the
\* frame the send operation emitted, the parser is in the Checksum state, the
\* computed checksum equals the byte read, the stored opcode and payload are
\* the ones sent, and the parser is back in Idle afterwards.
C1_RoundTrip == [][LastLoopByte => LoopFrameDecoded]_vars

\* C1, restricted to the frames with at least one payload byte: the round
\* trip of C1 succeeds for them.
C1_RoundTripWithPayload == [][(LastLoopByte /\ Len(loop) >= 2) => LoopFrameDecoded]_vars

\* the whole of a looped-back frame with an empty payload has been read and
\* the parser still waits for data
C1_EmptyPayloadStuck ==
    /\ loop # <<>>
    /\ Len(loop) = 1
    /\ wire = <<>>
    /\ bt_rx_pkt_state = "BT_RX_DATA"

\* the frame of the claim: sync, length high and low, the bytes, a checksum
\* that makes the sum of everything after the sync bytes 0 mod 256
IsFrameOf(f, body) ==
    /\ Len(f) = Len(body) + 5
    /\ f[1] = 0
    /\ f[2] = 170
    /\ f[3] = Len(body) \div 256
    /\ f[4] = Len(body) % 256
    /\ \A i \in 1..Len(body) : f[4 + i] = body[i]
    /\ f[Len(f)] \in Byte
    /\ (f[3] + f[4] + SumInt(body) + f[Len(f)]) % 256 = 0

\* C2: send framing.  A packet of l bytes handed to the send operation is
\* emitted as 00 AA, l >> 8, l & 0xFF, the l bytes in order and one checksum
\* byte that makes length bytes + opcode + payload + checksum = 0 mod 256;
\* the pairing-enable command is emitted as 00 AA 00 03 02 00 5D 9E.
C2_SendFraming ==
    /\ (Len(ev) >= 1 /\ ev[1].k = "cmd" /\ ev[1].a = "P") =>
          /\ Kinds(ev) = <<"cmd", "tx">>
          /\ IsFrameOf(ev[2].v, ev[1].v)
    /\ (Len(ev) >= 1 /\ ev[1].k = "cmd" /\ ev[1].a = "L") =>
          /\ Kinds(ev) = <<"cmd", "tx">>
          /\ ev[2].v = <<0, 170, 0, 3, 2, 0, 93, 158>>

\* a packet whose byte sum exceeds 255 has been sent
C2_Witness ==
    /\ Len(ev) = 2
    /\ ev[1].k = "cmd"
    /\ ev[1].a = "P"
    /\ SumInt(ev[1].v) > 255
    /\ ev[2].k = "tx"

\* the step is one call of _btProcessRxData
IsRxByte == wire # <<>> /\ wire' = Tail(wire)

\* the packet handler ran in the step
Dispatched == \E i \in 1..Len(ev') : ev'[i].k = "pkt"

\* two's complement of the mod-256 sum of the length bytes, the opcode and
\* the data bytes the parser has stored
FrameChecksum ==
    (256 - (SumInt([i \in 1..(bt_rx_pkt_index - 2) |-> bt_rx_pkt_buf[i + 1]]) % 256)) % 256

\* C3: dispatch guard.  The packet handler runs only when the byte read is
\* the checksum byte of a frame with a non-zero opcode and equals the two's
\* complement of the mod-256 sum of length bytes, opcode and data; a
\* checksum byte that does not match leaves link-in-service and call state
\* as they were, transmits nothing, and leaves the parser in Idle.
C3_DispatchGuard ==
    [][IsRxByte =>
        /\ Dispatched =>
              /\ bt_rx_pkt_state = "BT_RX_CHKSUM"
              /\ bt_rx_pkt_buf[4] # 0
              /\ Head(wire) = FrameChecksum
        /\ (bt_rx_pkt_state = "BT_RX_CHKSUM" /\ Head(wire) # FrameChecksum) =>
              /\ ~Dispatched
              /\ bt_in_service' = bt_in_service
              /\ bt_call_state' = bt_call_state
              /\ \A i \in 1..Len(ev') : ev'[i].k # "tx"
              /\ bt_rx_pkt_state' = "BT_RX_IDLE"]_vars

\* a frame with a non-zero opcode has been dropped at its checksum byte
C3_Witness ==
    /\ Kinds(ev) = <<"rx">>
    /\ ev[1].a = "BT_RX_CHKSUM"
    /\ bt_rx_pkt_buf[4] # 0
    /\ bt_rx_pkt_exp_chksum # ev[1].v[1]
    /\ bt_rx_pkt_state = "BT_RX_IDLE"

\* C4: acknowledgment ordering.  A call of _btProcessRxData that dispatches
\* a packet transmits exactly one frame, the acknowledgment 00 AA 00 02 14
\* <opcode> <checksum> for the opcode received, and transmits it before the
\* packet handler starts; a call that dispatches nothing transmits nothing.
C4_AckOrdering ==
    (Len(ev) >= 1 /\ ev[1].k = "rx") =>
        IF \E i \in 1..Len(ev) : ev[i].k = "pkt"
        THEN /\ Kinds(ev) = <<"rx", "tx", "pkt">>
             /\ ev[3].v = <<bt_rx_pkt_buf[4]>>
             /\ IsFrameOf(ev[2].v, <<20, bt_rx_pkt_buf[4]>>)
        ELSE \A i \in 1..Len(ev) : ev[i].k # "tx"

\* a link-established status packet has been acknowledged and applied
C4_Witness ==
    /\ Kinds(ev) = <<"rx", "tx", "pkt">>
    /\ ev[3].v = <<1>>
    /\ bt_in_service

(***************************************************************************)
(* Properties of the radio machine                                         *)
(***************************************************************************)
\* the frames transmitted in a trace, in order
Txs(t) == [i \in 1..Len(EvOf(t, "tx")) |-> EvOf(t, "tx")[i].v]

\* the step is one state evaluation of btEval
IsTick == Len(ev') >= 1 /\ ev'[1].k = "tick"

\* C5: reconnect (SpecReconnect).  Counting the radio ticks spent in
\* Disconnected with the link down since the counter was reset, ticks 1 to
\* 2999 send nothing, tick 3000 sends exactly one connect command
\* 17 04 <index> 03, and so does every further 3000th tick while the link
\* stays down.
C5_Reconnect ==
    [][(IsTick /\ bt_state = "BT_DISCONNECTED" /\ ~bt_in_service) =>
          IF (down_ticks + 1) % 3000 = 0
          THEN /\ Len(Txs(ev')) = 1
               /\ IsFrameOf(Txs(ev')[1], <<23, 4, bt_link_device_index, 3>>)
          ELSE Txs(ev') = <<>>]_vars

\* the second connect command of one outage has been sent
C5_Witness ==
    /\ down_ticks = 2 * 3000
    /\ bt_state = "BT_DISCONNECTED"
    /\ Len(Txs(ev)) = 1

C7_LinkDropToConnectedIdle ==
    [][(IsTick /\ bt_state = "BT_CALL_ACTIVE" /\ ~bt_in_service) =>
          bt_state' = "BT_CONNECTED_IDLE"]_vars

\* C7, amended: a radio tick in CallActive with the link down moves the
\* machine to Disconnected.
C7_LinkDropToDisconnected ==
    [][(IsTick /\ bt_state = "BT_CALL_ACTIVE" /\ ~bt_in_service) =>
          bt_state' = "BT_DISCONNECTED"]_vars

\* the machine has left CallActive because the link dropped
C7_Witness ==
    /\ Kinds(ev) = <<"tick", "state">>
    /\ ev[1].a = "BT_CALL_ACTIVE"
    /\ ~bt_in_service
    /\ bt_state = "BT_DISCONNECTED"

\* the character the claim gives for a key
AsciiOf(d) == CASE d = 10 -> 42 [] d = 11 -> 35 [] OTHER -> 48 + d

\* C8: dial completion (SpecDial).  A radio tick in Dialing that consumes a
\* digit event: digit 0 with nothing accumulated sends one voice-dial
\* command 02 00 0A and moves to CallInitiated; any other digit is appended,
\* and if it is the tenth, one number-dial command 00 00 <10 characters> is
\* sent, carrying the digits in the order dialed as '0'+d, '*' for 10 and '#'
\* for 11, and the machine moves to CallInitiated; with fewer than ten
\* digits, and in a tick that consumes no digit, nothing is sent.
C8_DialCompletion ==
    [][(IsTick /\ bt_state = "BT_DIALING" /\ bt_in_service) =>
          IF pots_dial_new_digit
          THEN IF pots_dial_cur_digit = 0 /\ dialed = <<>>
               THEN /\ Len(Txs(ev')) = 1
                    /\ IsFrameOf(Txs(ev')[1], <<2, 0, 10>>)
                    /\ bt_state' = "BT_CALL_INITIATED"
               ELSE /\ dialed' = Append(dialed, pots_dial_cur_digit)
                    /\ bt_dial_index' = Len(dialed')
                    /\ \A i \in 1..Len(dialed') : bt_dial_array'[i - 1] = dialed'[i]
                    /\ IF Len(dialed') = 10
                       THEN /\ Len(Txs(ev')) = 1
                            /\ IsFrameOf(Txs(ev')[1],
                                   <<0, 0>> \o [i \in 1..10 |-> AsciiOf(dialed'[i])])
                            /\ bt_state' = "BT_CALL_INITIATED"
                       ELSE /\ Txs(ev') = <<>>
                            /\ bt_state' = "BT_DIALING"
          ELSE Txs(ev') = <<>>]_vars

\* a number with both '*' and '#' in it has been dialled
C8_Witness ==
    /\ bt_state = "BT_CALL_INITIATED"
    /\ Len(dialed) = 10
    /\ \E i, j \in 1..10 : i < j /\ dialed[i] = 11 /\ dialed[j] = 10
    /\ Len(Txs(ev)) = 1
    /\ Len(Txs(ev)[1]) = 17

\* C9: hang-up during a call (Spec).  A radio tick in CallInitiated,
\* CallOutgoing or CallActive that consumes a hook event reporting on-hook
\* sends exactly one frame, the drop-call command 02 00 06, and sends it
\* before the state becomes ConnectedIdle; a tick that moves CallOutgoing or
\* CallActive to ConnectedIdle because the call status is Idle sends nothing.
C9_HangUp ==
    [][(IsTick /\ bt_state \in {"BT_CALL_INITIATED", "BT_CALL_OUTGOING", "BT_CALL_ACTIVE"}) =>
        /\ (\E i \in 1..Len(ev') : ev'[i].k = "hook" /\ ev'[i].a = "on") =>
              /\ Kinds(ev') = <<"tick", "hook", "tx", "state">>
              /\ IsFrameOf(ev'[3].v, <<2, 0, 6>>)
              /\ ev'[4].b = "BT_CONNECTED_IDLE"
              /\ bt_state' = "BT_CONNECTED_IDLE"
        /\ (bt_state' = "BT_CONNECTED_IDLE" /\ bt_call_state = "CALL_IDLE"
                /\ bt_state # "BT_CALL_INITIATED") =>
              /\ Txs(ev') = <<>>
              /\ pots_saw_hook_state_change' = pots_saw_hook_state_change]_vars

\* the caller has hung up while the phone was still dialling out
C9_Witness ==
    /\ Kinds(ev) = <<"tick", "hook", "tx", "state">>
    /\ ev[1].a = "BT_CALL_OUTGOING"
    /\ ev[2].a = "on"
    /\ bt_state = "BT_CONNECTED_IDLE"

\* C10: incoming call (Spec).  A radio tick in CallReceived that consumes a
\* hook event reporting off-hook sends exactly one accept-call command
\* 02 00 04, before anything else, and moves to CallActive; a tick in
\* CallReceived with the link up, no hook event pending and a call status
\* other than Incoming moves to ConnectedIdle with the ring generator Idle,
\* FR high and RM low, and sends nothing.
C10_IncomingCall ==
    [][(IsTick /\ bt_state = "BT_CALL_RECEIVED") =>
        /\ (\E i \in 1..Len(ev') : ev'[i].k = "hook" /\ ev'[i].a = "off") =>
              /\ Len(Txs(ev')) >= 1
              /\ IsFrameOf(Txs(ev')[1], <<2, 0, 4>>)
              /\ \A i \in 2..Len(Txs(ev')) : ~IsFrameOf(Txs(ev')[i], <<2, 0, 4>>)
              /\ FirstOf(ev', "tx") < FirstOf(ev', "state")
              /\ bt_state' = "BT_CALL_ACTIVE"
        /\ (bt_in_service /\ ~pots_saw_hook_state_change
                /\ bt_call_state # "CALL_INCOMING") =>
              /\ bt_state' = "BT_CONNECTED_IDLE"
              /\ pots_ring_state' = "RING_IDLE"
              /\ pin_FR' = "HIGH"
              /\ pin_RM' = "LOW"
              /\ Txs(ev') = <<>>]_vars

\* the call went away while the bell rang
C10_Witness ==
    /\ Kinds(ev) = <<"tick", "state">>
    /\ ev[1].a = "BT_CALL_RECEIVED"
    /\ bt_in_service
    /\ bt_state = "BT_CONNECTED_IDLE"
    /\ pots_state = "RINGING"
    /\ pots_ring_state = "RING_IDLE"
    /\ pin_FR = "HIGH"
    /\ pin_RM = "LOW"

\* the caller has answered: the accept-call command has been sent
C10_Answered ==
    /\ Len(ev) >= 3
    /\ ev[1].k = "tick"
    /\ ev[1].a = "BT_CALL_RECEIVED"
    /\ ev[2].k = "hook"
    /\ ev[2].a = "off"
    /\ bt_state = "BT_CALL_ACTIVE"

(***************************************************************************)
(* C11  The phone rings on received calls: whenever the radio machine is   *)
(* in BT_CALL_RECEIVED and the line state is ON_HOOK or RINGING, the ring  *)
(* generator is not RING_IDLE, however that situation was reached.         *)
(* _btSetState calls potsSetRing(true) once, on entry, and potsSetRing     *)
(* starts nothing unless the line is ON_HOOK at that moment; nothing       *)
(* starts the ring when the handset is replaced later.                     *)
(***************************************************************************)
C11_RingsWhileCallReceived ==
    (bt_state = "BT_CALL_RECEIVED" /\ pots_state \in {"ON_HOOK", "RINGING"})
        => pots_ring_state # "RING_IDLE"

\* the radio machine waits in BT_CALL_RECEIVED with the handset on the hook,
\* the hang-up already reported to it, and the ring generator idle
C11_SilentIncomingCall ==
    /\ bt_state = "BT_CALL_RECEIVED"
    /\ pots_state = "ON_HOOK"
    /\ ~pots_cur_off_hook
    /\ ~pots_saw_hook_state_change
    /\ pots_ring_state = "RING_IDLE"
    /\ pin_RM = "LOW"

(***************************************************************************)
(* Observing the line model                                                *)
(***************************************************************************)
\* everything pots.ino owns
potsVars == <<pots_state, pots_state_count, pots_in_service, pots_in_call,
              pots_cur_off_hook, pots_prev_off_hook, pots_saw_hook_state_change,
              pots_ring_state, pots_ring_period_count, pots_ring_pulse_count,
              pots_dial_state, pots_dial_period_count, pots_dial_pulse_count,
              pots_dial_prev_digit, pots_dial_new_digit, pots_dial_cur_digit,
              pots_tone_state, pots_tone_period_count, pin_FR, pin_RM>>

\* the step is one potsEval tick
IsPotsTick == Len(ev') = 1 /\ ev'[1].k = "pots"

\* ... in which the debounced hook value changed
HookChangedInTick == IsPotsTick /\ ev'[1].a = "hook"

\* ... in which the dial decoder finished a digit
DigitDialedInTick == IsPotsTick /\ ev'[1].b = "digit"

\* the step is the call potsSetRing(true)
IsSetRingTrue == Len(ev') = 1 /\ ev'[1].k = "ring" /\ ev'[1].a = "on"

(***************************************************************************)
(* C12  Ring start guard: potsSetRing(true) starts the ring generator      *)
(* (RING_PULSE_ON, timers loaded, polarity reversed, ring bias on) only    *)
(* when the line is ON_HOOK and the ring state RING_IDLE, and otherwise    *)
(* changes nothing in pots.ino; and in every reachable state a ring state  *)
(* other than RING_IDLE implies the line state is ON_HOOK or RINGING.      *)
(***************************************************************************)
C12_RingImpliesOnHook ==
    pots_ring_state # "RING_IDLE" => pots_state \in {"ON_HOOK", "RINGING"}

C12_SetRingStep ==
    IsSetRingTrue =>
        IF pots_state = "ON_HOOK" /\ pots_ring_state = "RING_IDLE"
        THEN /\ pots_ring_state' = "RING_PULSE_ON"
             /\ pots_ring_period_count' = 100
             /\ pots_ring_pulse_count' = 2
             /\ pin_FR' = "LOW" /\ pin_RM' = "HIGH"
        ELSE UNCHANGED potsVars

C12_RingStartGuard == []C12_RingImpliesOnHook /\ [][C12_SetRingStep]_vars

\* potsSetRing(true) has been called with the handset lifted and has left
\* the ring generator idle
C12_Witness ==
    /\ ev = <<Ev("ring", "on", "", <<>>)>>
    /\ pots_state \in {"OFF_HOOK", "ON_HOOK_PROVISIONAL"}
    /\ pots_ring_state = "RING_IDLE"
    /\ pin_RM = "LOW"

(***************************************************************************)
(* C13  Ring cancellation on answer: in every line tick in which the       *)
(* debounced hook value changes to off-hook while the ring state is        *)
(* RING_PULSE_ON, RING_PULSE_OFF or RING_BETWEEN, the tick ends with the   *)
(* ring state RING_IDLE, the line polarity normal (FR high) and the ring   *)
(* bias off (RM low).                                                      *)
(***************************************************************************)
C13_AnswerStep ==
    (HookChangedInTick /\ pots_cur_off_hook' /\ pots_ring_state # "RING_IDLE")
        => /\ pots_ring_state' = "RING_IDLE"
           /\ pin_FR' = "HIGH"
           /\ pin_RM' = "LOW"

C13_RingCancelledOnAnswer == [][C13_AnswerStep]_vars

\* the handset was lifted in the pause between two bursts, more than one
\* burst into the ringing, and the tick that detected it has run
C13_Witness ==
    /\ ev = <<Ev("pots", "hook", "", <<1, DtmfNone>>)>>
    /\ pots_cur_off_hook
    /\ pots_ring_state = "RING_IDLE"
    /\ pots_ring_period_count \in 1..(RingPeriodOff - 1)
    /\ pots_ring_pulse_count = 0
    /\ pots_state = "OFF_HOOK"
    /\ pots_tone_state = "TONE_OFF"

(***************************************************************************)
(* C14  Ring cadence: once started and until cancelled, the ring generator *)
(* spends exactly 100 consecutive line ticks alternating RING_PULSE_ON and *)
(* RING_PULSE_OFF every 2 ticks, RING_PULSE_ON first, with the polarity    *)
(* reversed exactly in RING_PULSE_ON; then exactly 300 ticks in            *)
(* RING_BETWEEN; then the next burst starts, and so on.  ring_age is the   *)
(* number of ticks since the start, counted up to MaxRingAge.              *)
(***************************************************************************)
C14_RingCadence ==
    (pots_ring_state # "RING_IDLE" /\ mon.ring_age < MaxRingAge) =>
        /\ pots_ring_state =
               IF mon.ring_age % 400 < 100
               THEN IF (mon.ring_age % 4) < 2
                    THEN "RING_PULSE_ON" ELSE "RING_PULSE_OFF"
               ELSE "RING_BETWEEN"
        /\ (pin_FR = "LOW") = (pots_ring_state = "RING_PULSE_ON")
        /\ pin_RM = "HIGH"

\* the second pause is on its last tick: two bursts and 299 ticks of the
\* second pause have gone by
C14_Witness ==
    /\ pots_ring_state = "RING_BETWEEN"
    /\ mon.ring_age = 799
    /\ pots_state = "RINGING"

(***************************************************************************)
(* C15  Hook debounce: in every line tick the debounced hook value changes *)
(* if and only if the raw sample of this tick equals the raw sample of the *)
(* tick before and differs from the debounced value; the new value is then *)
(* that sample, and the tick reports the change.  Hence one anomalous      *)
(* sample between two samples of the debounced value changes nothing, and  *)
(* two samples in a row opposite to it always change it.                   *)
(***************************************************************************)
C15_DebounceStep ==
    IsPotsTick =>
        LET sample == ev'[1].v[1]
            debounced == IF pots_cur_off_hook THEN 1 ELSE 0
            changes == sample = mon.raw1 /\ sample # debounced
        IN  /\ (pots_cur_off_hook' # pots_cur_off_hook) = changes
            /\ HookChangedInTick = changes
            /\ changes => (pots_cur_off_hook' = (sample = 1))

C15_Debounce == [][C15_DebounceStep]_vars

\* the handset is off the hook and the tick has just read one on-hook
\* sample: the debounced value has stayed off-hook
C15_Witness ==
    /\ ev = <<Ev("pots", "", "", <<0, DtmfNone>>)>>
    /\ mon.raw1 = 0
    /\ pots_cur_off_hook
    /\ ~pots_prev_off_hook
    /\ pots_state = "OFF_HOOK"

(***************************************************************************)
(* C16  Hang-up confirmation: from OFF_HOOK a debounced on-hook transition *)
(* moves the line to ON_HOOK_PROVISIONAL and raises no hook-changed event; *)
(* a debounced off-hook transition in one of the next 50 ticks returns the *)
(* line to OFF_HOOK, again with no event (in the 50th tick the transition  *)
(* is looked at before the timer); otherwise the line stays provisional    *)
(* for 49 ticks and in the 50th becomes ON_HOOK with the hook-changed      *)
(* event raised, and the event is not raised again while the handset stays *)
(* down.  So the breaks of a rotary pulse train raise no hook-changed      *)
(* event.  hook_age is the number of ticks since the debounced transition. *)
(***************************************************************************)
C16_HangUpStep ==
    IsPotsTick =>
        /\ (pots_state = "OFF_HOOK" /\ HookChangedInTick /\ ~pots_cur_off_hook')
               => /\ pots_state' = "ON_HOOK_PROVISIONAL"
                  /\ UNCHANGED pots_saw_hook_state_change
        /\ pots_state = "ON_HOOK_PROVISIONAL"
               => /\ mon.hook_age <= 49
                  /\ IF HookChangedInTick /\ pots_cur_off_hook'
                     THEN /\ pots_state' = "OFF_HOOK"
                          /\ UNCHANGED pots_saw_hook_state_change
                     ELSE IF mon.hook_age = 49
                     THEN /\ pots_state' = "ON_HOOK"
                          /\ pots_saw_hook_state_change'
                     ELSE /\ pots_state' = "ON_HOOK_PROVISIONAL"
                          /\ UNCHANGED pots_saw_hook_state_change
        /\ (pots_state = "ON_HOOK" /\ ~HookChangedInTick)
               => UNCHANGED pots_saw_hook_state_change
        /\ (mon.train > 0 /\ pots_state # "ON_HOOK" /\ mon.hook_age < 49)
               => UNCHANGED pots_saw_hook_state_change

C16_HangUpConfirmation == [][C16_HangUpStep]_vars

\* a digit was dialled with the rotary dial, then the handset was put down,
\* and the 50th tick after the debounced transition has just run
C16_Witness ==
    /\ pots_state = "ON_HOOK"
    /\ pots_saw_hook_state_change
    /\ mon.hook_age = 50
    /\ ~pots_cur_off_hook
    /\ lim.digits = 1
    /\ Len(ev) = 1 /\ ev[1].k = "pots"

(***************************************************************************)
(* C17  Rotary decoding: with the line not ON_HOOK, a train of n breaks,   *)
(* 1 <= n <= 10, each of at most 10 ticks, separated by makes of at most   *)
(* 10 ticks and followed by a make of more than 10 ticks, raises exactly   *)
(* one digit event, with the value n mod 10, in the 11th tick of that      *)
(* make; a break of more than 10 ticks discards the pulses counted so far  *)
(* and raises no digit event.  train is the number of such breaks since    *)
(* the last make or break of more than 10 ticks, hook_age the length so    *)
(* far of the present make.                                                *)
(***************************************************************************)
C17_TrainComplete ==
    /\ pots_cur_off_hook
    /\ mon.hook_age = 10
    /\ mon.train \in 1..10

C17_RotaryStep ==
    IsPotsTick =>
        /\ C17_TrainComplete
               => /\ DigitDialedInTick
                  /\ pots_dial_new_digit'
                  /\ pots_dial_cur_digit' = mon.train % 10
        /\ DigitDialedInTick
               => /\ pots_cur_off_hook
                  /\ mon.hook_age = 10
                  /\ mon.train >= 1

C17_RotaryDecoding == [][C17_RotaryStep]_vars

\* a train of one break is complete, its make has lasted 10 ticks, and the
\* decoder is in DIAL_IDLE with no pulse counted: the break began in the
\* tick that finished the digit before, and the next tick raises no digit
C17_LostPulse ==
    /\ C17_TrainComplete
    /\ mon.train = 1
    /\ mon.clipped
    /\ pots_dial_state = "DIAL_IDLE"
    /\ pots_state = "OFF_HOOK"

\* what holds: the same for every train whose first break does not begin in
\* the 11th tick of the make before it; a train that does is decoded with
\* its first break left out
C17_UnclippedStep ==
    IsPotsTick =>
        /\ (C17_TrainComplete /\ ~mon.clipped)
               => /\ DigitDialedInTick
                  /\ pots_dial_new_digit'
                  /\ pots_dial_cur_digit' = mon.train % 10
        /\ (C17_TrainComplete /\ mon.clipped)
               => IF mon.train = 1 THEN ~DigitDialedInTick
                  ELSE /\ DigitDialedInTick
                       /\ pots_dial_cur_digit' = mon.train - 1
        /\ DigitDialedInTick
               => /\ pots_cur_off_hook
                  /\ mon.hook_age = 10
                  /\ mon.train > (IF mon.clipped THEN 1 ELSE 0)

C17_RotaryDecodingUnclipped == [][C17_UnclippedStep]_vars

\* ten pulses have been decoded as the digit 0
C17_TenPulses ==
    /\ Len(ev) = 1 /\ ev[1].k = "pots" /\ ev[1].b = "digit"
    /\ pots_dial_pulse_count = 10
    /\ pots_dial_new_digit
    /\ pots_dial_cur_digit = 0

(***************************************************************************)
(* C18  DTMF timing: the decoder raises a tone digit only when the value   *)
(* it stores has been given by the detector on at least 3 ticks in a row   *)
(* (with no other value and no 3 silent ticks since) and 3 silent ticks    *)
(* in a row have then been counted; so a tone that ends after fewer than   *)
(* 3 ticks, or whose value changes while it is detected, raises no digit.  *)
(***************************************************************************)
C18_DtmfStep ==
    (IsPotsTick /\ DigitDialedInTick /\ pots_dial_state = "DIAL_DTMF_OFF")
        => /\ mon.d_long
           /\ mon.d_sil = 3
           /\ pots_dial_new_digit'
           /\ pots_dial_cur_digit' = mon.d_val

C18_DtmfTiming == [][C18_DtmfStep]_vars

\* the key 5 has been decoded, in a tick that is at least the 10th in which
\* the decoder did something: tones were given before the one decoded
C18_Witness ==
    /\ Len(ev) = 1 /\ ev[1].k = "pots" /\ ev[1].b = "digit"
    /\ pots_dial_state = "DIAL_IDLE"
    /\ pots_dial_new_digit
    /\ pots_dial_cur_digit = 5
    /\ mon.d_val = 5
    /\ lim.ticks >= 10

(***************************************************************************)
(* C19  Dial tone and its timeout: a tick in which the handset is lifted   *)
(* (debounced) with the tone generator idle, the line not RINGING and the  *)
(* service up ends with the dial tone; the dial tone stays for 6000 ticks  *)
(* unless a digit is dialled or the handset replaced (debounced), and the  *)
(* 6000th tick after the lift enters TONE_OFF_HOOK_ON; from then on, with  *)
(* the handset lifted and no digit dialled, the generator changes between  *)
(* TONE_OFF_HOOK_ON and TONE_OFF_HOOK_OFF in every 10th tick.              *)
(***************************************************************************)
C19_ToneStep ==
    IsPotsTick =>
        /\ (/\ HookChangedInTick /\ pots_cur_off_hook'
            /\ pots_tone_state = "TONE_IDLE"
            /\ pots_state # "RINGING"
            /\ pots_in_service)
               => pots_tone_state' = "TONE_DIAL"
        /\ (/\ pots_tone_state = "TONE_DIAL"
            /\ ~DigitDialedInTick
            /\ ~(HookChangedInTick /\ ~pots_cur_off_hook'))
               => pots_tone_state' = IF mon.tone_age = 6000 - 1
                                     THEN "TONE_OFF_HOOK_ON" ELSE "TONE_DIAL"
        /\ (/\ pots_tone_state = "TONE_OFF_HOOK_ON"
            /\ ~DigitDialedInTick
            /\ pots_cur_off_hook /\ pots_cur_off_hook')
               => pots_tone_state' = IF mon.tone_age = 10 - 1
                                     THEN "TONE_OFF_HOOK_OFF"
                                     ELSE "TONE_OFF_HOOK_ON"
        /\ (/\ pots_tone_state = "TONE_OFF_HOOK_OFF"
            /\ ~DigitDialedInTick
            /\ pots_cur_off_hook /\ pots_cur_off_hook')
               => pots_tone_state' = IF mon.tone_age = 10 - 1
                                     THEN "TONE_OFF_HOOK_ON"
                                     ELSE "TONE_OFF_HOOK_OFF"

C19_DialToneTimeout == [][C19_ToneStep]_vars

\* no digit was dialled, the dial tone has run out and the warning has just
\* gone back from TONE_OFF_HOOK_OFF to TONE_OFF_HOOK_ON
C19_Witness ==
    /\ pots_tone_state = "TONE_OFF_HOOK_ON"
    /\ mon.tone1 = "TONE_OFF_HOOK_OFF"
    /\ mon.tone_age = 0
    /\ lim.digits = 0
    /\ pots_in_service
    /\ pots_state = "OFF_HOOK"

(***************************************************************************)
(* C20  As stated: in every tick in which the dial decoder raises a digit  *)
(* the tone generator ends in TONE_OFF, whatever state it was in.          *)
(***************************************************************************)
C20_DigitStepAnyState ==
    (IsPotsTick /\ DigitDialedInTick) => pots_tone_state' = "TONE_OFF"

C20_DigitForcesToneOff == [][C20_DigitStepAnyState]_vars

(***************************************************************************)
(* C20  As the code has it: a digit raised in a tick that begins in        *)
(* TONE_DIAL, TONE_OFF_HOOK_ON or TONE_OFF_HOOK_OFF leaves the generator   *)
(* in TONE_OFF; one raised in TONE_NO_SERVICE_ON or TONE_NO_SERVICE_OFF is *)
(* ignored and the generator does not end in TONE_OFF; in TONE_OFF the     *)
(* generator stays there unless the line is ON_HOOK or its time runs out   *)
(* in that tick; in TONE_IDLE a digit starts no tone.                      *)
(***************************************************************************)
C20_DigitStep ==
    (IsPotsTick /\ DigitDialedInTick) =>
        /\ pots_tone_state \in {"TONE_DIAL", "TONE_OFF_HOOK_ON", "TONE_OFF_HOOK_OFF"}
               => pots_tone_state' = "TONE_OFF"
        /\ pots_tone_state \in {"TONE_NO_SERVICE_ON", "TONE_NO_SERVICE_OFF"}
               => pots_tone_state' # "TONE_OFF"
        /\ (/\ pots_tone_state = "TONE_OFF"
            /\ pots_state # "ON_HOOK"
            /\ mon.tone_age < 6000 - 1)
               => pots_tone_state' = "TONE_OFF"
        /\ (pots_tone_state = "TONE_IDLE" /\ ~HookChangedInTick)
               => pots_tone_state' = "TONE_IDLE"

C20_DigitEndsDialAndWarning == [][C20_DigitStep]_vars

\* a digit has been raised in the silent half of the off-hook warning and
\* the generator is off
C20_Witness ==
    /\ Len(ev) = 1 /\ ev[1].k = "pots" /\ ev[1].b = "digit"
    /\ mon.tone1 = "TONE_OFF_HOOK_OFF"
    /\ pots_tone_state = "TONE_OFF"
    /\ pots_tone_period_count = 6000

\* a digit has been raised during the no-service tone, which goes on
C20_DigitDuringNoService ==
    /\ Len(ev) = 1 /\ ev[1].k = "pots" /\ ev[1].b = "digit"
    /\ mon.tone1 = "TONE_NO_SERVICE_ON"
    /\ pots_tone_state = "TONE_NO_SERVICE_ON"

(***************************************************************************)
(* C21  No-service tone: a tick in which the handset is lifted (debounced) *)
(* with the tone generator idle, the line not RINGING and the service down *)
(* ends in TONE_NO_SERVICE_ON; the generator then stays 30 ticks in        *)
(* TONE_NO_SERVICE_ON and 20 ticks in TONE_NO_SERVICE_OFF in turn, and     *)
(* leaves the two only from TONE_NO_SERVICE_OFF to TONE_IDLE in a tick     *)
(* that begins with the line ON_HOOK: no digit, no potsSetInService and no *)
(* potsSetInCall call changes the tone state.                              *)
(***************************************************************************)
C21_NoServiceStep ==
    /\ (/\ HookChangedInTick /\ pots_cur_off_hook'
        /\ pots_tone_state = "TONE_IDLE"
        /\ pots_state # "RINGING"
        /\ ~pots_in_service)
           => pots_tone_state' = "TONE_NO_SERVICE_ON"
    /\ (IsPotsTick /\ pots_tone_state = "TONE_NO_SERVICE_ON")
           => pots_tone_state' = IF mon.tone_age = 30 - 1
                                 THEN "TONE_NO_SERVICE_OFF"
                                 ELSE "TONE_NO_SERVICE_ON"
    /\ (IsPotsTick /\ pots_tone_state = "TONE_NO_SERVICE_OFF")
           => pots_tone_state' = IF pots_state = "ON_HOOK" THEN "TONE_IDLE"
                                 ELSE IF mon.tone_age = 20 - 1
                                 THEN "TONE_NO_SERVICE_ON"
                                 ELSE "TONE_NO_SERVICE_OFF"
    /\ (InNoService /\ ~IsPotsTick) => pots_tone_state' = pots_tone_state

C21_NoServiceTone == [][C21_NoServiceStep]_vars

\* the beep has begun again after a pause, although the service is up, a
\* call is active and a digit has been dialled
C21_Witness ==
    /\ pots_tone_state = "TONE_NO_SERVICE_ON"
    /\ mon.tone1 = "TONE_NO_SERVICE_OFF"
    /\ mon.tone_age = 0
    /\ pots_in_service
    /\ pots_in_call
    /\ lim.digits >= 1
    /\ pots_state = "OFF_HOOK"

(***************************************************************************)
(* C22  No tone of the line's own during an active call: whenever the      *)
(* radio machine is in BT_CALL_ACTIVE with pots_in_call set and the last   *)
(* step was a line tick, the tone generator is in TONE_OFF or TONE_IDLE.   *)
(***************************************************************************)
C22_NoToneInCall ==
    (/\ bt_state = "BT_CALL_ACTIVE"
     /\ pots_in_call
     /\ Len(ev) = 1 /\ ev[1].k = "pots")
        => pots_tone_state \in {"TONE_OFF", "TONE_IDLE"}

\* the handset was lifted with the service down, the call was dialled by
\* voice and is active, and the line has ticked: the no-service beep sounds
C22_BeepDuringCall ==
    /\ bt_state = "BT_CALL_ACTIVE"
    /\ pots_in_call
    /\ Len(ev) = 1 /\ ev[1].k = "pots"
    /\ pots_state = "OFF_HOOK"
    /\ pots_tone_state = "TONE_NO_SERVICE_ON"
    /\ mon.tone1 = "TONE_NO_SERVICE_ON"

\* a call dialled from the dial tone is active, the line has ticked and the
\* generator is off
C22_QuietCall ==
    /\ bt_state = "BT_CALL_ACTIVE"
    /\ pots_in_call
    /\ Len(ev) = 1 /\ ev[1].k = "pots"
    /\ pots_state = "OFF_HOOK"
    /\ pots_tone_state = "TONE_OFF"

(***************************************************************************)
(* C23  Latched line events: a radio tick reads at most one line event     *)
(* (hook-changed or digit-dialed); a read that returns true finds the flag *)
(* set and clears it, and reports the line state at the time of the read   *)
(* (off-hook iff the line is not ON_HOOK) or the digit stored last; a tick *)
(* that reads nothing leaves the flags alone.  A flag is set, and the      *)
(* stored digit changed, only by a line tick that raises the event, so     *)
(* events raised several times before a read are read as one.              *)
(***************************************************************************)
C23_IsRadioTick == Len(ev') >= 1 /\ ev'[1].k = "tick"

C23_LatchStep ==
    LET h == EvOf(ev', "hook")
        d == EvOf(ev', "digit")
    IN  /\ C23_IsRadioTick =>
              /\ Len(h) + Len(d) <= 1
              /\ IF Len(h) = 1
                 THEN /\ pots_saw_hook_state_change
                      /\ ~pots_saw_hook_state_change'
                      /\ h[1].a = IF pots_state # "ON_HOOK" THEN "off" ELSE "on"
                 ELSE pots_saw_hook_state_change' = pots_saw_hook_state_change
              /\ IF Len(d) = 1
                 THEN /\ pots_dial_new_digit
                      /\ ~pots_dial_new_digit'
                      /\ d[1].v = <<pots_dial_cur_digit>>
                 ELSE pots_dial_new_digit' = pots_dial_new_digit
        /\ (~pots_saw_hook_state_change /\ pots_saw_hook_state_change')
              => (IsPotsTick /\ pots_state' # pots_state)
        /\ (~pots_dial_new_digit /\ pots_dial_new_digit') => DigitDialedInTick
        /\ pots_dial_cur_digit' # pots_dial_cur_digit => DigitDialedInTick

C23_TwoDigitsOneRead ==
    /\ Len(ev) >= 2
    /\ ev[1].k = "tick" /\ ev[1].a = "BT_DIALING"
    /\ EvOf(ev, "digit") # <<>>
    /\ lim.digits = 2
    /\ bt_state = "BT_CALL_INITIATED"

\* C24: pairing index validation (SpecPair).  A console command D=<value>
\* whose value is greater than 7 changes nothing the program holds: the
\* pairing ID, the EEPROM byte and the link device index stay as they were;
\* a value of 0..7 becomes all three.  In every state the link device index
\* is in 0..7 and equals the pairing ID and the EEPROM byte, and every
\* connect command sent carries it.
C24_IsSetPairing == Len(ev') >= 1 /\ ev'[1].k = "cmd" /\ ev'[1].a = "D" /\ ev'[1].b = "val"

C24_PairingStep ==
    /\ C24_IsSetPairing =>
          IF ev'[1].v[1] > 7
          THEN /\ pairID' = pairID
               /\ eeprom' = eeprom
               /\ bt_link_device_index' = bt_link_device_index
               /\ bt_state' = bt_state
               /\ bt_reconnect_count' = bt_reconnect_count
               /\ Txs(ev') = <<>>
          ELSE /\ pairID' = ev'[1].v[1]
               /\ eeprom' = ev'[1].v[1]
               /\ bt_link_device_index' = ev'[1].v[1]
    /\ \A i \in 1..Len(Txs(ev')) :
          (Len(Txs(ev')[i]) >= 6 /\ Txs(ev')[i][5] = 23) =>
              /\ Txs(ev')[i][7] \in 0..7
              /\ Txs(ev')[i][7] = pairID
              /\ IsFrameOf(Txs(ev')[i], <<23, 4, pairID, 3>>)

C24_PairingIndex ==
    /\ [](/\ bt_link_device_index \in 0..7
          /\ pairID = bt_link_device_index
          /\ eeprom = bt_link_device_index)
    /\ [][C24_PairingStep]_vars

\* after two console commands the pairing ID is 7, which no EEPROM byte of
\* the start gives, and the connect command at the end of the reconnect
\* period carries it
C24_ConnectAfterSet ==
    /\ lim.cmds = 2
    /\ pairID = 7
    /\ Len(Txs(ev)) = 1
    /\ IsFrameOf(Txs(ev)[1], <<23, 4, 7, 3>>)

\* the command D=FF has just been refused and the pairing ID is still 5
C24_Witness ==
    /\ Len(ev) = 1
    /\ ev[1].k = "cmd" /\ ev[1].a = "D" /\ ev[1].b = "val"
    /\ ev[1].v = <<255>>
    /\ pairID = 5

\* C25: wraparound clock (SpecClock).  In every pass of loop(), for the
\* radio machine and for the line machine alike: the elapsed time the
\* machine computes is the 32-bit value that, added to its previous
\* evaluation time, gives the current time mod 2^32 (0 when the two are
\* equal); the machine's tick runs if and only if that time is at least its
\* period, 20 ms for the radio and 10 ms for the line; and the previous
\* evaluation time becomes the current time if the tick runs and stays as it
\* was if not.
C25_AtLeast(e, period) == e[1] > 0 \/ e[2] >= period

C25_ClockStep ==
    EvOf(ev', "elapsed") # <<>> =>
        LET el == EvOf(ev', "elapsed")
            bt_ran == EvOf(ev', "tick") # <<>>
            pots_ran == EvOf(ev', "pots") # <<>>
        IN  /\ Len(el) = 2
            /\ el[1].a = "bt" /\ el[2].a = "pots"
            /\ Add32(bt_prev_evalT, el[1].v) = lim'.now
            /\ Add32(pots_prev_evalT, el[2].v) = lim'.now
            /\ bt_ran <=> C25_AtLeast(el[1].v, 20)
            /\ pots_ran <=> C25_AtLeast(el[2].v, 10)
            /\ bt_prev_evalT' = IF bt_ran THEN lim'.now ELSE bt_prev_evalT
            /\ pots_prev_evalT' = IF pots_ran THEN lim'.now ELSE pots_prev_evalT

C25_WraparoundClock == [][C25_ClockStep]_vars

\* the clock has wrapped between two passes 10 ms apart: the line ticked,
\* the radio did not
C25_Witness ==
    /\ lim.now = <<0, 4>>
    /\ EvOf(ev, "elapsed") # <<>>
    /\ EvOf(ev, "elapsed")[2].v = <<0, 10>>
    /\ pots_prev_evalT = <<0, 4>>
    /\ bt_prev_evalT = <<65535, 65530>>
    /\ EvOf(ev, "pots") # <<>>
    /\ EvOf(ev, "tick") = <<>>

\* a pass at the very time of the evaluation before it: elapsed 0, no tick
C25_SameTime ==
    /\ lim.passes >= 2
    /\ lim.now = pots_prev_evalT
    /\ EvOf(ev, "elapsed") # <<>>
    /\ EvOf(ev, "elapsed")[2].v = <<0, 0>>
    /\ EvOf(ev, "pots") = <<>>

\* C26: return to idle (SpecRest).  From the moment after which the raw
\* hook samples stay on-hook and no tone pair is detected (the environment
\* has spent its MaxRestTicks ticks), with line ticks going on, the line comes
\* to ON_HOOK or RINGING with the dial decoder in DIAL_IDLE and the tone
\* generator in TONE_IDLE, and stays there; and every radio tick that finds
\* the link out of service, in whatever state, leaves the radio machine in
\* BT_DISCONNECTED.
C26_LineIdle ==
    /\ pots_state \in {"ON_HOOK", "RINGING"}
    /\ pots_dial_state = "DIAL_IDLE"
    /\ pots_tone_state = "TONE_IDLE"

C26_RadioStep == (IsTick /\ ~bt_in_service) => bt_state' = "BT_DISCONNECTED"

C26_AtRest == lim.ticks = MaxRestTicks

C27_IsRxByte == wire # <<>> /\ wire' = Tail(wire)

\* bytes stored after the two length bytes
C27_Consumed(index) == index - 4

\* what a byte read after the length field does, for a declared length of at
\* least minLen: while fewer than bt_rx_pkt_len bytes have been consumed the
\* parser goes on accumulating, the byte that completes them moves it to
\* BT_RX_CHKSUM, and the byte read in BT_RX_CHKSUM moves it to BT_RX_IDLE
C27_LengthStep(minLen) ==
    (C27_IsRxByte /\ bt_rx_pkt_len >= minLen) =>
        /\ bt_rx_pkt_state \in {"BT_RX_CMD", "BT_RX_DATA"} =>
              /\ C27_Consumed(bt_rx_pkt_index') = C27_Consumed(bt_rx_pkt_index) + 1
              /\ bt_rx_pkt_state' =
                    IF C27_Consumed(bt_rx_pkt_index') = bt_rx_pkt_len
                    THEN "BT_RX_CHKSUM" ELSE "BT_RX_DATA"
              /\ C27_Consumed(bt_rx_pkt_index') <= bt_rx_pkt_len
        /\ bt_rx_pkt_state = "BT_RX_CHKSUM" => bt_rx_pkt_state' = "BT_RX_IDLE"

\* C27: frame length handling (SpecLink).  For every inbound frame with
\* correct sync bytes and a declared length L of 1 or more, the parser
\* consumes exactly L bytes after the length field, treats the next byte as
\* the checksum and is in Idle after it, L = 1 included; the parser is never
\* in a state from which no byte sequence brings it back to Idle (in
\* BT_RX_DATA with more than L bytes consumed: the count only grows).
C27_FrameLength ==
    /\ [][C27_LengthStep(1)]_vars
    /\ [](~(/\ bt_rx_pkt_state = "BT_RX_DATA"
            /\ C27_Consumed(bt_rx_pkt_index) > bt_rx_pkt_len))

\* C27 for declared lengths of 2 or more: the parser consumes L bytes, then
\* the checksum, and is back in Idle
C27_FrameLengthWithData == [][C27_LengthStep(2)]_vars

\* a frame of the BM64 with declared length 1 has been read to its last
\* byte: the parser took the checksum byte for data and waits for more
C27_OpcodeOnlyStuck ==
    /\ loop = <<>>
    /\ nframes = 1
    /\ wire = <<>>
    /\ bt_rx_pkt_len = 1
    /\ bt_rx_pkt_state = "BT_RX_DATA"
    /\ C27_Consumed(bt_rx_pkt_index) = 2

\* a frame of the BM64 with declared length 3 has been read to its last
\* byte and the parser is back in Idle
C27_DataFrameRead ==
    /\ loop = <<>>
    /\ nframes = 1
    /\ wire = <<>>
    /\ bt_rx_pkt_len = 3
    /\ bt_rx_pkt_state = "BT_RX_IDLE"
    /\ EvOf(ev, "pkt") # <<>>

\* the number-dial commands (opcode 00, 10 characters) sent in a trace
C28_NumberDials(t) ==
    SelectSeq(Txs(t), LAMBDA f : Len(f) = 17 /\ f[5] = 0)

\* C28: abandoned dial (SpecDial).  A radio tick in Dialing that consumes a
\* hook event reporting on-hook, which it does only with fewer than 10
\* digits accumulated, moves to ConnectedIdle and sends nothing; every tick
\* that enters Dialing leaves the accumulator empty; and a number-dial
\* command is sent only from Dialing and carries exactly the 10 digit
\* events consumed since the last entry into Dialing.
C28_DialStep ==
    IsTick =>
        /\ (bt_state = "BT_DIALING"
              /\ \E i \in 1..Len(ev') : ev'[i].k = "hook" /\ ev'[i].a = "on") =>
              /\ Len(dialed) < 10
              /\ bt_state' = "BT_CONNECTED_IDLE"
              /\ Txs(ev') = <<>>
        /\ (bt_state # "BT_DIALING" /\ bt_state' = "BT_DIALING") =>
              /\ bt_dial_index' = 0
              /\ dialed' = <<>>
        /\ C28_NumberDials(ev') # <<>> =>
              /\ bt_state = "BT_DIALING"
              /\ Len(C28_NumberDials(ev')) = 1
              /\ Len(dialed') = 10
              /\ IsFrameOf(C28_NumberDials(ev')[1],
                           <<0, 0>> \o [i \in 1..10 |-> AsciiOf(dialed'[i])])

C28_AbandonedDial == [][C28_DialStep]_vars

\* a dial attempt has just been abandoned with digits accumulated
C28_Witness ==
    /\ Kinds(ev) = <<"tick", "hook", "state">>
    /\ ev[1].a = "BT_DIALING"
    /\ ev[2].a = "on"
    /\ bt_state = "BT_CONNECTED_IDLE"
    /\ bt_dial_index >= 2

\* a number has been dialled to the end in the second dial attempt of the
\* behaviour
C28_SecondAttempt ==
    /\ attempts = 2
    /\ bt_state = "BT_CALL_INITIATED"
    /\ Len(dialed) = 10
    /\ C28_NumberDials(ev) # <<>>

(***************************************************************************)
(* C29  Ringing line state: the line state becomes RINGING only from       *)
(* ON_HOOK, in a line tick that ends with the ring generator active and in *)
(* which the debounced hook value did not change to off-hook; it leaves    *)
(* RINGING only in a tick that ends with the ring state RING_IDLE: to      *)
(* OFF_HOOK with the hook-changed event raised when the debounced hook     *)
(* value is off-hook (answered), otherwise to ON_HOOK with the hook-       *)
(* changed event left as it was (ring cancelled).  A call of potsSetRing   *)
(* does not change the line state.                                         *)
(***************************************************************************)
\* the line state a tick started from ON_HOOK ends with
C29_FromOnHook ==
    IF HookChangedInTick /\ pots_cur_off_hook' THEN "OFF_HOOK"
    ELSE IF pots_ring_state' # "RING_IDLE" THEN "RINGING"
    ELSE "ON_HOOK"

C29_RingingStep ==
    /\ IsPotsTick /\ pots_state = "ON_HOOK" => pots_state' = C29_FromOnHook
    /\ pots_state' = "RINGING" /\ pots_state # "RINGING" =>
           /\ IsPotsTick
           /\ pots_state = "ON_HOOK"
           /\ pots_ring_state' # "RING_IDLE"
           /\ ~(HookChangedInTick /\ pots_cur_off_hook')
    /\ pots_state = "RINGING" =>
           IF IsPotsTick /\ pots_ring_state' = "RING_IDLE"
           THEN IF pots_cur_off_hook'
                THEN /\ pots_state' = "OFF_HOOK"
                     /\ pots_saw_hook_state_change'
                ELSE /\ pots_state' = "ON_HOOK"
                     /\ pots_saw_hook_state_change' = pots_saw_hook_state_change
           ELSE pots_state' = "RINGING"

C29_RingingState == [][C29_RingingStep]_vars

\* the ring was cancelled in the pause after the first burst (the pause
\* timer holds a count that only the pause loads) with the handset never
\* touched: the line is back ON_HOOK and no hook-changed event is pending
C29_Witness ==
    /\ ev = <<Ev("pots", "", "", <<0, DtmfNone>>)>>
    /\ lim.rings = 1
    /\ lim.flips = 0
    /\ pots_state = "ON_HOOK"
    /\ pots_ring_state = "RING_IDLE"
    /\ pots_ring_period_count \in (RingPeriodOn + 1)..(RingPeriodOff - 1)
    /\ ~pots_cur_off_hook
    /\ ~pots_saw_hook_state_change

\* the line is RINGING: a tick has run with the ring generator active
C29_Ringing ==
    /\ pots_state = "RINGING"
    /\ pots_ring_state = "RING_PULSE_OFF"
    /\ ~pots_cur_off_hook

\* the ringing line was answered: OFF_HOOK with the hook-changed event
C29_Answered ==
    /\ ev = <<Ev("pots", "hook", "", <<1, DtmfNone>>)>>
    /\ lim.rings = 0
    /\ pots_state = "OFF_HOOK"
    /\ pots_ring_state = "RING_IDLE"
    /\ pots_ring_pulse_count < RingHalfPulse
    /\ pots_saw_hook_state_change

(***************************************************************************)
(* C30  DTMF key mapping.  As stated: with exactly one row detector and    *)
(* one column detector above threshold, row i (0..2) and column j (0..2)   *)
(* decode to digit 3*i + j + 1, and row 3 decodes to 10, 0, 11 for columns *)
(* 0, 1, 2; with no row or no column above threshold no digit is reported; *)
(* every digit-dialed event carries a value in 0..11 and a rotary event a  *)
(* value in 0..9.  The row detectors are compared with >= and the column   *)
(* detectors with >, so the statement fails for a row reading that equals  *)
(* the threshold; it holds with a row taken as detected when its reading   *)
(* is at or above the threshold.  Readings are in tenths of full scale,    *)
(* the threshold 0.2 is 2.                                                 *)
(***************************************************************************)
\* the rows (1..4) whose reading is above the threshold, those whose
\* reading is at or above it, and the columns (1..3) above the threshold
C30_RowsAbove(r) == {i \in 1..4 : r[i] > 2}

C30_RowsAtOrAbove(r) == {i \in 1..4 : r[i] >= 2}

C30_ColsAbove(c) == {j \in 1..3 : c[j] > 2}

\* the key in row i and column j of the keypad, both counted from 0
C30_Key(i, j) == IF i <= 2 THEN 3 * i + j + 1 ELSE <<10, 0, 11>>[j + 1]

\* the value the tick got from the detectors is the key of the rows and
\* columns given
C30_Decoded(rows, cols, d) ==
    /\ \A i \in 0..3, j \in 0..2 :
           rows = {i + 1} /\ cols = {j + 1} => d = C30_Key(i, j)
    /\ rows = {} \/ cols = {} => d = -1

\* a digit-dialed event raised in a tick, and one read by the main sketch,
\* carries 0..11, and 0..9 when the dial decoder was counting pulses
C30_DigitStep ==
    /\ DigitDialedInTick =>
           /\ pots_dial_new_digit'
           /\ pots_dial_cur_digit' \in 0..11
           /\ pots_dial_state = "DIAL_MAKE" => pots_dial_cur_digit' \in 0..9
    /\ \A i \in 1..Len(ev') :
           ev'[i].k = "digit" => ev'[i].v[1] \in 0..11

C30_StatedStep ==
    /\ IsPotsTick =>
           C30_Decoded(C30_RowsAbove(lim'.key[1]), C30_ColsAbove(lim'.key[2]),
                       ev'[1].v[2])
    /\ C30_DigitStep

C30_KeyMapping == [][C30_StatedStep]_vars

C30_AtThresholdStep ==
    /\ IsPotsTick =>
           C30_Decoded(C30_RowsAtOrAbove(lim'.key[1]), C30_ColsAbove(lim'.key[2]),
                       ev'[1].v[2])
    /\ C30_DigitStep

C30_KeyMappingAtThreshold == [][C30_AtThresholdStep]_vars

\* the key in row 0 and column 1 was pressed, alone, and the digit-dialed
\* event carries 2
C30_Witness ==
    /\ lim.key = <<QuietRows, QuietCols>>
    /\ lim.ticks >= 6
    /\ ev = <<Ev("pots", "", "digit", <<1, DtmfNone>>)>>
    /\ pots_dial_new_digit
    /\ pots_dial_cur_digit = 2
    /\ mon.d_val = 2

\* row 0 reads exactly the threshold, row 1 is above it, column 0 is above:
\* the tick decodes key 1, not key 4
C30_RowAtThreshold ==
    /\ lim.key = <<(<<2, 3, 1, 1>>), (<<3, 1, 1>>)>>
    /\ ev = <<Ev("pots", "", "", <<1, 1>>)>>

\* the key '#' was pressed and the event carries 11
C30_Pound ==
    /\ ev = <<Ev("pots", "", "digit", <<1, DtmfNone>>)>>
    /\ pots_dial_cur_digit = 11
    /\ mon.d_val = 11

\* ten pulses were dialled and the event carries 0
C30_RotaryZero ==
    /\ pots_dial_pulse_count = 10
    /\ pots_dial_new_digit
    /\ pots_dial_cur_digit = 0
    /\ lim.ticks = 0
    /\ ev[1].k = "pots" /\ ev[1].b = "digit"

(***************************************************************************)
(* C31  Answering a ring silences the tone generator: in every line tick   *)
(* at whose start the ring state is not RING_IDLE and in which the         *)
(* debounced hook value changes to off-hook, the tone state at the end of  *)
(* the tick is TONE_OFF, whatever the position in the ring cadence, the    *)
(* first line tick after the ring was started included.                    *)
(***************************************************************************)
\* the step is a line tick that answers a ring
C31_IsAnswer ==
    /\ HookChangedInTick
    /\ pots_cur_off_hook'
    /\ pots_ring_state # "RING_IDLE"

C31_AnswerStep == C31_IsAnswer => pots_tone_state' = "TONE_OFF"

C31_AnswerSilencesTone == [][C31_AnswerStep]_vars

\* the same for the ticks that begin with the line state RINGING and the
\* tone generator idle
C31_RingingAnswerStep ==
    C31_IsAnswer /\ pots_state = "RINGING" /\ pots_tone_state = "TONE_IDLE"
        => pots_tone_state' = "TONE_OFF"

C31_RingingAnswerSilencesTone == [][C31_RingingAnswerStep]_vars

\* the ring was started between the two off-hook samples of a lift: the
\* tick that debounced the lift ended the ring with its timers as loaded,
\* found the line state still ON_HOOK and started the dial tone
C31_ToneWhileAnswering ==
    /\ ev = <<Ev("pots", "hook", "", <<1, DtmfNone>>)>>
    /\ lim.rings = 1
    /\ pots_ring_state = "RING_IDLE"
    /\ pots_ring_period_count = RingPeriodOn
    /\ pots_ring_pulse_count = RingHalfPulse
    /\ pots_state = "OFF_HOOK"
    /\ pots_in_service
    /\ pots_tone_state = "TONE_DIAL"

\* a ring answered during the first burst with the line RINGING: the tone
\* generator is off
C31_AnsweredQuiet ==
    /\ ev = <<Ev("pots", "hook", "", <<1, DtmfNone>>)>>
    /\ pots_ring_state = "RING_IDLE"
    /\ pots_ring_period_count \in 1..(RingPeriodOn - 1)
    /\ pots_state = "OFF_HOOK"
    /\ pots_tone_state = "TONE_OFF"

(***************************************************************************)
(* C32  Receiver-off-hook warning: a line tick that begins in TONE_OFF     *)
(* with the line not ON_HOOK and pots_in_call set leaves the tone state    *)
(* TONE_OFF and the timer at 6000, so the warning never starts from        *)
(* TONE_OFF during a call; with pots_in_call clear the 6000th such tick in *)
(* a row enters TONE_OFF_HOOK_ON, and no earlier one does; from then on    *)
(* the generator changes between TONE_OFF_HOOK_ON and TONE_OFF_HOOK_OFF in *)
(* every 10th tick, and leaves the two only to TONE_OFF in a tick in which *)
(* a digit is dialled, or to TONE_IDLE in a tick that begins with the line *)
(* ON_HOOK (and the generator in TONE_OFF_HOOK_OFF, where the line state   *)
(* is looked at).  No potsSetInCall call changes the tone state or the     *)
(* timer.                                                                  *)
(***************************************************************************)
C32_InWarning == pots_tone_state \in {"TONE_OFF_HOOK_ON", "TONE_OFF_HOOK_OFF"}

C32_Other ==
    IF pots_tone_state = "TONE_OFF_HOOK_ON"
    THEN "TONE_OFF_HOOK_OFF" ELSE "TONE_OFF_HOOK_ON"

C32_WarningStep ==
    /\ (IsPotsTick /\ pots_tone_state = "TONE_OFF" /\ pots_state # "ON_HOOK") =>
           IF pots_in_call
           THEN /\ pots_tone_state' = "TONE_OFF"
                /\ pots_tone_period_count' = 6000
           ELSE pots_tone_state' = IF mon.tone_age = 6000 - 1
                                   THEN "TONE_OFF_HOOK_ON" ELSE "TONE_OFF"
    /\ (IsPotsTick /\ C32_InWarning) =>
           \/ /\ DigitDialedInTick
              /\ pots_tone_state' = "TONE_OFF"
           \/ /\ ~DigitDialedInTick
              /\ pots_state = "ON_HOOK"
              /\ pots_tone_state = "TONE_OFF_HOOK_OFF"
              /\ pots_tone_state' = "TONE_IDLE"
           \/ /\ ~DigitDialedInTick
              /\ ~(pots_state = "ON_HOOK" /\ pots_tone_state = "TONE_OFF_HOOK_OFF")
              /\ pots_tone_state' = IF mon.tone_age = 10 - 1
                                    THEN C32_Other ELSE pots_tone_state
    /\ ~IsPotsTick =>
           /\ pots_tone_state' = pots_tone_state
           /\ pots_tone_period_count' = pots_tone_period_count

C32_HeldInCall ==
    /\ pots_tone_state = "TONE_OFF"
    /\ mon.tone1 = "TONE_OFF"
    /\ pots_in_call
    /\ lim.cmds = 2
    /\ pots_tone_period_count = RcvOffHookPeriods
    /\ ev = <<Ev("pots", "", "", <<1, DtmfNone>>)>>

\* a digit was dialled during the warning and ended it
C32_DigitEndsWarning ==
    /\ pots_tone_state = "TONE_OFF"
    /\ mon.tone1 \in {"TONE_OFF_HOOK_ON", "TONE_OFF_HOOK_OFF"}
    /\ ev = <<Ev("pots", "", "digit", <<1, DtmfNone>>)>>

\* the handset was replaced during the warning and the tone generator is
\* idle
C32_HangUpEndsWarning ==
    /\ pots_tone_state = "TONE_IDLE"
    /\ mon.tone1 = "TONE_OFF_HOOK_OFF"
    /\ pots_state = "ON_HOOK"

(***************************************************************************)
(* C33  Cooperative cancellation.  As stated: potsSetRing(false), called   *)
(* by the radio machine in its tick, leaves the ring state and the line    *)
(* outputs as they are; the ring ends in the next line tick.  The radio    *)
(* machine calls potsSetRing(false) when it enters BT_DISCONNECTED,        *)
(* BT_CONNECTED_IDLE or BT_CALL_ACTIVE.                                    *)
(***************************************************************************)
\* the step is a radio tick that enters a state whose entry action calls
\* potsSetRing(false)
C33_IsStopRing ==
    /\ IsTick
    /\ \E i \in 1..Len(ev') :
           /\ ev'[i].k = "state"
           /\ ev'[i].b \in {"BT_DISCONNECTED", "BT_CONNECTED_IDLE", "BT_CALL_ACTIVE"}

C33_DeferredStep ==
    C33_IsStopRing =>
        /\ pots_ring_state' = pots_ring_state
        /\ pin_FR' = pin_FR
        /\ pin_RM' = pin_RM

C33_ImmediateStep ==
    C33_IsStopRing =>
        /\ pots_ring_state' = "RING_IDLE"
        /\ pots_ring_state # "RING_IDLE" => pin_FR' = "HIGH" /\ pin_RM' = "LOW"
        /\ pots_ring_state = "RING_IDLE" => pin_FR' = pin_FR /\ pin_RM' = pin_RM
        /\ pots_ring_period_count' = pots_ring_period_count
        /\ pots_ring_pulse_count' = pots_ring_pulse_count
        /\ pots_state' = pots_state

C34_WritesInBuffer == ~rx_oob

\* the same for the frames with a declared length from 2 to 27
C34_ShortFramesInBuffer == rx_oob => bt_rx_pkt_len \notin 2..27

\* a frame of declared length 28 has been read to its end: the checksum
\* byte went to index 32, outside the buffer
C34_ChecksumPastEnd ==
    /\ rx_oob
    /\ bt_rx_pkt_len = 28
    /\ bt_rx_pkt_index = 32
    /\ bt_rx_pkt_state = "BT_RX_IDLE"
    /\ ev[1] = Ev("rx", "BT_RX_CHKSUM", "", <<1>>)

\* a frame of declared length 27 has been read to its end, its checksum
\* byte in the last place of the buffer
C34_LongestFrameFits ==
    /\ ~rx_oob
    /\ bt_rx_pkt_len = 27
    /\ bt_rx_pkt_index = 31
    /\ bt_rx_pkt_state = "BT_RX_IDLE"
    /\ ev[1] = Ev("rx", "BT_RX_CHKSUM", "", <<1>>)

(***************************************************************************)
(* C35  Radio/line flag agreement: in every reachable state, the states    *)
(* reached through the console command R (btInit) included, pots_in_service*)
(* is set iff the radio state is not BT_DISCONNECTED, pots_in_call is set  *)
(* iff the radio state is BT_CALL_ACTIVE, and the ring generator is active *)
(* only if the radio state is BT_CALL_RECEIVED.  btInit assigns bt_state   *)
(* without the entry actions of BT_DISCONNECTED.                           *)
(***************************************************************************)
C35_FlagAgreement ==
    /\ pots_in_service <=> bt_state # "BT_DISCONNECTED"
    /\ pots_in_call <=> bt_state = "BT_CALL_ACTIVE"
    /\ pots_ring_state # "RING_IDLE" => bt_state = "BT_CALL_RECEIVED"

\* the step is the console command R
C35_IsReset == Len(ev') = 1 /\ ev'[1].k = "cmd" /\ ev'[1].a = "R"

\* every step but the console command R keeps the agreement
C35_KeptStep == (C35_FlagAgreement /\ ~C35_IsReset) => C35_FlagAgreement'

C35_AgreementKept == [][C35_KeptStep]_vars

\* the radio was reset during a call: the radio machine is disconnected,
\* the line still has the service and the call
C35_StaleFlagsAfterReset ==
    /\ ev = <<Ev("cmd", "R", "", <<>>)>>
    /\ bt_state = "BT_DISCONNECTED"
    /\ pots_in_service
    /\ pots_in_call
    /\ pots_state = "OFF_HOOK"

\* the radio was reset while the phone was ringing: the radio machine is
\* disconnected and the ring goes on
C35_RingingAfterReset ==
    /\ ev = <<Ev("cmd", "R", "", <<>>)>>
    /\ bt_state = "BT_DISCONNECTED"
    /\ pots_ring_state # "RING_IDLE"
    /\ pin_RM = "HIGH"

\* the agreement in a call that was answered
C35_AgreedInCall ==
    /\ C35_FlagAgreement
    /\ bt_state = "BT_CALL_ACTIVE"
    /\ pots_state = "OFF_HOOK"
    /\ ev[1].k = "tick"

(***************************************************************************)
(* C36  Fresh digits only: every digit event the radio machine reads in    *)
(* BT_DIALING was raised by the line machine while the radio machine was   *)
(* in BT_DIALING; a digit dialled earlier is never stored or taken for the *)
(* leading 0 of a voice dial.  The digit event stays latched until it is   *)
(* read or the line is ON_HOOK in a tick with the dial decoder idle, and   *)
(* nothing reads it in BT_DISCONNECTED or clears it on entry to BT_DIALING.*)
(***************************************************************************)
\* the step is a radio tick in BT_DIALING that reads a digit event
C36_ReadsDigit ==
    /\ IsTick
    /\ bt_state = "BT_DIALING"
    /\ \E i \in 1..Len(ev') : ev'[i].k = "digit"

C36_FreshStep == C36_ReadsDigit => mon.d_state = "BT_DIALING"

C36_FreshDigits == [][C36_FreshStep]_vars

\* the key 0 was pressed with the link down and the handset lifted; the
\* link came up, and the first radio tick in BT_DIALING took the old digit
\* for a voice dial
C36_StaleVoiceDial ==
    /\ Len(ev) >= 2
    /\ ev[1] = Ev("tick", "BT_DIALING", "", <<>>)
    /\ ev[2] = Ev("digit", "", "", <<0>>)
    /\ mon.d_state = "BT_DISCONNECTED"
    /\ bt_state = "BT_CALL_INITIATED"
    /\ pots_state = "OFF_HOOK"

\* the key 0 was pressed after the radio machine had entered BT_DIALING
C36_FreshVoiceDial ==
    /\ Len(ev) >= 2
    /\ ev[1] = Ev("tick", "BT_DIALING", "", <<>>)
    /\ ev[2] = Ev("digit", "", "", <<0>>)
    /\ mon.d_state = "BT_DIALING"
    /\ bt_state = "BT_CALL_INITIATED"

(***************************************************************************)
(* C37  Off-hook is never toneless by omission: after every line tick, the *)
(* line state OFF_HOOK implies that the tone state is not TONE_IDLE, also  *)
(* when the handset is lifted again in the tick right after the line state *)
(* returned to ON_HOOK.  In that tick the tone generator, still in         *)
(* TONE_OFF, sees the line ON_HOOK and goes to TONE_IDLE without looking   *)
(* at the hook edge, which the line state then follows to OFF_HOOK.        *)
(***************************************************************************)
C37_OffHookHasTone ==
    (Len(ev) = 1 /\ ev[1].k = "pots" /\ pots_state = "OFF_HOOK")
        => pots_tone_state # "TONE_IDLE"

\* the same for a lift that finds the tone generator idle
C37_LiftStep ==
    (/\ HookChangedInTick /\ pots_cur_off_hook'
     /\ pots_tone_state = "TONE_IDLE")
        => pots_state' = "OFF_HOOK" /\ pots_tone_state' # "TONE_IDLE"

C37_LiftFromIdleHasTone == [][C37_LiftStep]_vars

\* the handset was lifted again in the tick after the hang-up was
\* confirmed: the line is OFF_HOOK, the service is up, the hook event is
\* raised and the tone generator is idle
C37_TonelessOffHook ==
    /\ ev = <<Ev("pots", "hook", "", <<1, DtmfNone>>)>>
    /\ pots_state = "OFF_HOOK"
    /\ pots_cur_off_hook
    /\ pots_in_service
    /\ pots_saw_hook_state_change
    /\ pots_tone_state = "TONE_IDLE"
    /\ mon.tone1 = "TONE_OFF"

\* the handset was lifted again two ticks after the hang-up was confirmed
\* and the dial tone sounds
C37_ReliftDialTone ==
    /\ ev = <<Ev("pots", "hook", "", <<1, DtmfNone>>)>>
    /\ pots_state = "OFF_HOOK"
    /\ pots_tone_state = "TONE_DIAL"
    /\ lim.flips = 3

(***************************************************************************)
(* C38  Line state agrees with the debounced hook: in every state, the     *)
(* line state ON_HOOK or ON_HOOK_PROVISIONAL implies that the debounced    *)
(* hook value is on-hook, OFF_HOOK implies that it is off-hook, and        *)
(* RINGING with the ring generator active implies that it is on-hook.      *)
(***************************************************************************)
C38_LineAgreesWithHook ==
    /\ pots_state \in {"ON_HOOK", "ON_HOOK_PROVISIONAL"} => ~pots_cur_off_hook
    /\ pots_state = "OFF_HOOK" => pots_cur_off_hook
    /\ (pots_state = "RINGING" /\ pots_ring_state # "RING_IDLE") => ~pots_cur_off_hook

\* the ringing phone was answered and the handset replaced: the tick that
\* debounced the on-hook edge has left the line ON_HOOK_PROVISIONAL
C38_Witness ==
    /\ ev = <<Ev("pots", "hook", "", <<0, DtmfNone>>)>>
    /\ pots_state = "ON_HOOK_PROVISIONAL"
    /\ ~pots_cur_off_hook
    /\ pots_ring_state = "RING_IDLE"
    /\ lim.flips = 2

\* the ring was cancelled and the line has gone back from RINGING to
\* ON_HOOK with the handset on the hook
C38_CancelledOnHook ==
    /\ ev = <<Ev("pots", "", "", <<0, DtmfNone>>)>>
    /\ lim.rings = 1
    /\ pots_state = "ON_HOOK"
    /\ ~pots_cur_off_hook
    /\ pots_ring_period_count \in (RingPeriodOn + 1)..(RingPeriodOff - 1)
    /\ pots_ring_pulse_count = 0

\* dialling with the link going down and coming back
LinkDialNumbers ==
    {<<1, 2, 3, 4, 5, 6, 7, 8, 9, 0>>,
     <<10, 11, 0, 0, 5, 5, 11, 10, 9, 1>>}

InitDialLink ==
    Holds(ConnectedIdleRec) /\ InitEnv(LinkDialNumbers, MaxDownTicks, MaxDialAttempts)

NextDialLink ==
    \/ NextDial
    \/ \E f \in {LinkUpFrame, LinkDownFrame} : RxFrame(f)

SpecDialLink == InitDialLink /\ [][NextDialLink]_vars

(***************************************************************************)
(* C39  Dial accumulator bound: under every sequence of digit, hook and    *)
(* link events the dialed-digit index never exceeds 10; a step that        *)
(* changes the dial array is taken with the index in 0..9 and writes only  *)
(* the entry at the index, so nothing is written outside the 10 entries    *)
(* and no digit is stored once ten are held.                               *)
(***************************************************************************)
C39_StoreStep ==
    /\ bt_dial_index' \in 0..10
    /\ DOMAIN bt_dial_array' = 0..9
    /\ bt_dial_index' > bt_dial_index =>
          /\ bt_dial_index \in 0..9
          /\ bt_dial_index' = bt_dial_index + 1
          /\ bt_dial_array'[bt_dial_index] = pots_dial_cur_digit
    /\ \A i \in 0..9 :
          bt_dial_array'[i] # bt_dial_array[i] =>
              i = bt_dial_index /\ bt_dial_index' = i + 1
    /\ bt_dial_index = 10 => bt_dial_array' = bt_dial_array

C39_DialBound == [][C39_StoreStep]_vars

\* ten digits are held and the number has been sent: the index rests at 10
\* with the radio machine out of BT_DIALING
C39_Witness ==
    /\ bt_dial_index = 10
    /\ Len(dialed) = 10
    /\ bt_state = "BT_CALL_INITIATED"
    /\ \A i \in 1..10 : bt_dial_array[i - 1] = dialed[i]

\* the link was lost in the middle of a number and has come back: the
\* second attempt starts with the index at 0
C39_RedialAfterLinkLoss ==
    /\ attempts = 2
    /\ bt_state = "BT_DIALING"
    /\ bt_dial_index = 0
    /\ \E i \in 1..Len(ev) : ev[i].k = "state" /\ ev[i].b = "BT_DIALING"
    /\ \A i \in 1..4 : bt_dial_array[i - 1] = number[i]

\* a key pressed with ten digits held is latched by the line and not stored
C39_EleventhKey ==
    /\ bt_dial_index = 10
    /\ pots_dial_new_digit
    /\ bt_state = "BT_CALL_INITIATED"

(***************************************************************************)
(* C40  Line outputs track the ring state: in every state, and so after    *)
(* every line tick and every set-ring command, the polarity output is      *)
(* reversed (FR low) iff the ring state is RING_PULSE_ON and the ring-mode *)
(* bias is on (RM high) iff the ring state is not RING_IDLE; polarity is   *)
(* never left reversed in RING_IDLE, RING_PULSE_OFF or RING_BETWEEN.       *)
(***************************************************************************)
C40_OutputsTrackRing ==
    /\ pin_FR \in {"LOW", "HIGH"}
    /\ pin_RM \in {"LOW", "HIGH"}
    /\ pin_FR = "LOW" <=> pots_ring_state = "RING_PULSE_ON"
    /\ pin_RM = "HIGH" <=> pots_ring_state # "RING_IDLE"
    /\ pots_ring_state \in {"RING_IDLE", "RING_PULSE_OFF", "RING_BETWEEN"} =>
          pin_FR = "HIGH"

\* a tick has just ended the burst: the pause between rings with the bias
\* on and the polarity normal
C40_Witness ==
    /\ ev = <<Ev("pots", "", "", <<0, DtmfNone>>)>>
    /\ pots_ring_state = "RING_BETWEEN"
    /\ pots_ring_period_count = RingPeriodOff
    /\ pin_FR = "HIGH"
    /\ pin_RM = "HIGH"

\* a half pulse with the polarity reversed, in the second burst
C40_ReversedPulse ==
    /\ pots_ring_state = "RING_PULSE_ON"
    /\ pin_FR = "LOW"
    /\ pin_RM = "HIGH"
    /\ mon.ring_age > RingPeriodOn + RingPeriodOff

\* the handset was lifted in a reversed half pulse: the tick ends with the
\* ring idle, polarity normal and bias off
C40_AnsweredInPulse ==
    /\ ev = <<Ev("pots", "hook", "", <<1, DtmfNone>>)>>
    /\ pots_ring_state = "RING_IDLE"
    /\ pots_ring_pulse_count \in 1..(RingHalfPulse - 1)
    /\ pots_ring_period_count % (2 * RingHalfPulse) > RingHalfPulse
    /\ pin_FR = "HIGH"
    /\ pin_RM = "LOW"

====
